---------------------------- MODULE Spec2Model ----------------------------
(***************************************************************************)
(* A model of the gamacros input-to-action engine: the Gamacros facade     *)
(* (crates/gamacrosd/src/app/gamacros.rs), its button engine, and the      *)
(* stick processor with its repeat scheduler (app/stick/*.rs).             *)
(*                                                                         *)
(* Times are in milliseconds.  Axis values are fixed-point, in units of    *)
(* 1/AxisScale of full deflection.  A Bitmask<Button> is the natural       *)
(* number held in its u64 field.  Option<T> is a sequence of length 0 or 1.*)
(***************************************************************************)
EXTENDS Integers, Sequences, FiniteSets, TLC

(***************************************************************************)
(* Bounds of the model                                                     *)
(***************************************************************************)
\* the clock stops advancing at MaxTime
MaxTime == 4
\* the largest amount the clock advances in one step
MaxStep == 2
\* repeat registrations stop when seq_counter reaches MaxSeq
MaxSeq == 2
\* stick ticks stop when generation reaches MaxGen
MaxGen == 2
\* the longest input handed to the term parser, in characters
MaxInput == 4
\* the values of seq_counter: the u64 of the program, which wraps at 2^64,
\* narrowed to a counter that wraps at SeqModulus
SeqModulus == 8

(***************************************************************************)
(* Option<T>                                                               *)
(***************************************************************************)
None == << >>
Some(v) == << v >>
IsSome(o) == Len(o) = 1
Unwrap(o) == o[1]

(***************************************************************************)
(* gamacros_gamepad::Button and its derived Bitable implementation         *)
(***************************************************************************)
ButtonNames ==
    << "A", "B", "X", "Y", "Back", "Guide", "Start", "LeftStick", "RightStick",
       "LeftShoulder", "RightShoulder", "LeftTrigger", "RightTrigger",
       "DPadUp", "DPadDown", "DPadLeft", "DPadRight" >>

\* zero-based position of the variant in the enum
ButtonIndex(b) == (CHOOSE i \in 1..Len(ButtonNames) : ButtonNames[i] = b) - 1

\* Bitable::bit: 1u64 << index
Bit(b) == 2 ^ ButtonIndex(b)

(***************************************************************************)
(* gamacros_bit_mask::Bitmask, on the u64 it wraps                         *)
(***************************************************************************)
\* a & b
RECURSIVE BitAnd(_, _)
BitAnd(a, b) ==
    IF a = 0 \/ b = 0 THEN 0
    ELSE (a % 2) * (b % 2) + 2 * BitAnd(a \div 2, b \div 2)

\* a | b
RECURSIVE BitOr(_, _)
BitOr(a, b) ==
    IF a = 0 THEN b
    ELSE IF b = 0 THEN a
    ELSE (IF a % 2 = 1 \/ b % 2 = 1 THEN 1 ELSE 0) + 2 * BitOr(a \div 2, b \div 2)

\* a & !b
RECURSIVE BitAndNot(_, _)
BitAndNot(a, b) ==
    IF a = 0 THEN 0
    ELSE IF b = 0 THEN a
    ELSE (a % 2) * (1 - (b % 2)) + 2 * BitAndNot(a \div 2, b \div 2)

\* u64::count_ones
RECURSIVE CountOnes(_)
CountOnes(a) == IF a = 0 THEN 0 ELSE (a % 2) + CountOnes(a \div 2)

BitmaskEmpty == 0
BitmaskContains(m, b) == BitAnd(m, Bit(b)) /= 0
BitmaskInsert(m, b) == BitOr(m, Bit(b))
BitmaskRemove(m, b) == BitAndNot(m, Bit(b))
\* the comparison with the operands exchanged
BitmaskIsSubsetSwapped(a, b) == BitAnd(a, b) = b
BitmaskIsSubset(a, b) == BitAnd(a, b) = a
BitmaskIsSuperset(a, b) == BitmaskIsSubset(b, a)
BitmaskCount(m) == CountOnes(m)

RECURSIVE BitmaskNew(_)
BitmaskNew(values) ==
    IF values = << >> THEN 0
    ELSE BitOr(Bit(Head(values)), BitmaskNew(Tail(values)))

(***************************************************************************)
(* Inputs: controllers, applications and profile snapshots                  *)
(***************************************************************************)
\* a finite map with no entries (AHashMap::new())
EmptyMap == << >>

\* fixed-point scale of an axis value: AxisScale stands for 1.0
AxisScale == 100

ControllerIds == {1, 2}

\* ControllerInfo of each controller the backend can report
ControllerInfo(id) ==
    IF id = 1
    THEN [id |-> 1, vendor_id |-> 4660, product_id |-> 22136, supports_rumble |-> TRUE]
    ELSE [id |-> id, vendor_id |-> 1118, product_id |-> 654, supports_rumble |-> FALSE]

\* buttons the backend reports in the model
EventButtons == {"A", "B", "LeftShoulder"}
Phases == {"Pressed", "Released"}

\* bundle ids the focus monitor reports
Apps == {"demo", "other"}

Keystroke(k) == [kind |-> "Keystroke", key |-> k]
Macros(m) == [kind |-> "Macros", keys |-> m]
Shell(c) == [kind |-> "Shell", cmd |-> c]
ButtonRule(a, v) == [action |-> a, vibrate |-> v]

Chord(bs) == BitmaskNew(bs)

Arrows(dz, delay, interval, ix, iy) ==
    [mode |-> "Arrows", deadzone |-> dz, repeat_delay_ms |-> delay,
     repeat_interval_ms |-> interval, invert_x |-> ix, invert_y |-> iy]
Stepper(m, ax, dz, min, max) ==
    [mode |-> m, axis |-> ax, deadzone |-> dz,
     min_interval_ms |-> min, max_interval_ms |-> max]
\* gamma in tenths, max_speed_px_s in pixels per second
MouseMove(dz, speed, gamma, ix, iy) ==
    [mode |-> "MouseMove", deadzone |-> dz, max_speed_px_s |-> speed,
     gamma |-> gamma, invert_x |-> ix, invert_y |-> iy]
\* speed_lines_s in lines per second
Scroll(dz, speed, horizontal, ix, iy) ==
    [mode |-> "Scroll", deadzone |-> dz, speed_lines_s |-> speed,
     horizontal |-> horizontal, invert_x |-> ix, invert_y |-> iy]

\* scenario 1 of the specification, with a tie, a macro and a shell rule, and
\* the A -> B remap of scenario 4 for controller 1
ProfileChords ==
    [name |-> "chords",
     controllers |-> (<< 4660, 22136 >> :> ("A" :> "B")),
     rules |-> ("demo" :>
        [buttons |->
            (Chord(<< "A" >>) :> ButtonRule(Keystroke("x"), None))
            @@ (Chord(<< "LeftShoulder", "A" >>) :> ButtonRule(Keystroke("y"), Some(200)))
            @@ (Chord(<< "A", "B" >>) :> ButtonRule(Macros(<< "m1", "m2" >>), None))
            @@ (Chord(<< "B" >>) :> ButtonRule(Shell("sh"), Some(50))),
         sticks |-> EmptyMap])]

\* a profile without an entry for any controller
ProfilePlain ==
    [name |-> "plain",
     controllers |-> EmptyMap,
     rules |-> ("demo" :>
        [buttons |->
            (Chord(<< "A" >>) :> ButtonRule(Keystroke("z"), Some(200)))
            @@ (Chord(<< "LeftShoulder", "B" >>) :> ButtonRule(Keystroke("w"), None)),
         sticks |-> EmptyMap])
       @@ ("other" :>
        [buttons |-> (Chord(<< "B" >>) :> ButtonRule(Keystroke("q"), None)),
         sticks |-> EmptyMap])]

ProfileArrows ==
    [name |-> "arrows",
     controllers |-> EmptyMap,
     rules |-> ("demo" :>
        [buttons |-> EmptyMap,
         sticks |-> ("Left" :> Arrows(20, 1, 2, FALSE, FALSE))])]

\* the same mode with other repeat parameters and no initial delay
ProfileArrowsFast ==
    [name |-> "arrows_fast",
     controllers |-> EmptyMap,
     rules |-> ("demo" :>
        [buttons |-> EmptyMap,
         sticks |-> ("Left" :> Arrows(20, 0, 1, FALSE, FALSE))])]

\* a stepper whose interval is 2 ms at full deflection and 3 ms at half
ProfileVolumeHold ==
    [name |-> "volume_hold",
     controllers |-> EmptyMap,
     rules |-> ("demo" :>
        [buttons |-> EmptyMap,
         sticks |-> ("Right" :> Stepper("Volume", "X", 20, 4, 2))])]

\* arrows on both sticks: the right one with no deadzone and both axes inverted
ProfileArrowsBoth ==
    [name |-> "arrows_both",
     controllers |-> EmptyMap,
     rules |-> ("demo" :>
        [buttons |-> EmptyMap,
         sticks |-> ("Left" :> Arrows(20, 1, 2, FALSE, FALSE)
                     @@ "Right" :> Arrows(0, 1, 2, TRUE, TRUE))])]

\* repeat_interval_ms: 0 is accepted by the profile parser
ProfileArrowsZero ==
    [name |-> "arrows_zero",
     controllers |-> EmptyMap,
     rules |-> ("demo" :>
        [buttons |-> EmptyMap,
         sticks |-> ("Left" :> Arrows(20, 1, 0, FALSE, FALSE))])]

ProfileVolume ==
    [name |-> "volume",
     controllers |-> EmptyMap,
     rules |-> ("demo" :>
        [buttons |-> EmptyMap,
         sticks |-> ("Right" :> Stepper("Volume", "X", 20, 4, 1))])]

\* arrows on the left stick and a scroll wheel on the right one; at full
\* deflection a tick adds half a line to the accumulator
ProfileMixed ==
    [name |-> "mixed",
     controllers |-> EmptyMap,
     rules |-> ("demo" :>
        [buttons |-> EmptyMap,
         sticks |-> ("Left" :> Arrows(20, 1, 2, FALSE, FALSE)
                     @@ "Right" :> Scroll(20, 5, TRUE, FALSE, FALSE))])]

\* a pointer on the right stick: 1000 px/s at full deflection, linear response
ProfileMouse ==
    [name |-> "mouse",
     controllers |-> EmptyMap,
     rules |-> ("demo" :>
        [buttons |-> EmptyMap,
         sticks |-> ("Right" :> MouseMove(20, 1000, 10, FALSE, FALSE))])]

\* a scroll wheel on the right stick, half a line for a tick at full
\* deflection, with and without the horizontal direction
ProfileScrollWide ==
    [name |-> "scroll_wide",
     controllers |-> EmptyMap,
     rules |-> ("demo" :>
        [buttons |-> EmptyMap,
         sticks |-> ("Right" :> Scroll(20, 5, TRUE, FALSE, FALSE))])]

ProfileScrollTall ==
    [name |-> "scroll_tall",
     controllers |-> EmptyMap,
     rules |-> ("demo" :>
        [buttons |-> EmptyMap,
         sticks |-> ("Right" :> Scroll(20, 5, FALSE, FALSE, FALSE))])]

ButtonProfiles == {ProfileChords, ProfilePlain}
ScrollProfiles == {ProfileScrollWide, ProfileScrollTall}
\* arrows, a stepper and a pointer, all with the deadzone 0.2
DeadzoneProfiles == {ProfileArrows, ProfileVolume, ProfileMouse}
\* the profiles of the runs that install, replace and remove profiles
LifecycleProfiles == {ProfileMixed}
\* the profiles of the arrow runs
StickProfiles == {ProfileArrows, ProfileArrowsFast, ProfileArrowsZero}

(***************************************************************************)
(* State                                                                   *)
(***************************************************************************)
VARIABLES
    workspace,              \* Gamacros.workspace: Option<Profile>
    active_app,             \* Gamacros.active_app
    controllers,            \* Gamacros.controllers: id -> ControllerState
    active_stick_rules,     \* Gamacros.active_stick_rules
    compiled_stick_rules,   \* Gamacros.compiled_stick_rules
    stick_controllers,      \* StickProcessor.controllers: id -> ControllerRepeatState
    generation,             \* StickProcessor.generation
    schedule,               \* StickProcessor.schedule: the heap's entries
    seq_counter,            \* StickProcessor.seq_counter
    seq_wrapped,            \* history: seq_counter has wrapped around
    clock,                  \* the monotonic clock (Instant::now()), in ms
    pc,                     \* "idle", or "spin" when process_due_repeats never returns
    parked,                 \* history: the (controller, side) pairs a tick saw inside
                            \* the deadzone of an Arrows mode and that have not left it
    panicked,               \* the process died on a failed expect()
    connected,              \* controllers the backend has connected
    trigger_state,          \* the backend's trigger_state: id -> (bool, bool)
    trigger_last,           \* history: the last button event the backend emitted
                            \* for each trigger of each connection
    keys_down,              \* history: the (controller, key) pairs with a KeyPress the
                            \* runner performed and no KeyRelease after it
    sink,                   \* actions the last handler passed to its sink
    last                    \* what the last handler was and what it saw

vars ==
    << workspace, active_app, controllers, active_stick_rules, compiled_stick_rules,
       stick_controllers, generation, schedule, seq_counter, seq_wrapped, clock, pc,
       parked,
       panicked, connected, trigger_state, trigger_last, keys_down, sink, last >>

gamacrosVars == << workspace, active_app, controllers, active_stick_rules,
                   compiled_stick_rules >>
stickVars == << stick_controllers, generation, schedule, seq_counter, seq_wrapped >>
backendVars == << trigger_state, trigger_last >>

\* Gamacros::new() and StickProcessor::default()
Init ==
    /\ workspace = None
    /\ active_app = ""
    /\ controllers = EmptyMap
    /\ active_stick_rules = None
    /\ compiled_stick_rules = None
    /\ stick_controllers = EmptyMap
    /\ generation = 0
    /\ schedule = {}
    /\ seq_counter = 0
    /\ seq_wrapped = FALSE
    /\ clock = 0
    /\ pc = "idle"
    /\ parked = {}
    /\ panicked = FALSE
    /\ connected = {}
    /\ trigger_state = EmptyMap
    /\ trigger_last = EmptyMap
    /\ keys_down = {}
    /\ sink = << >>
    /\ last = [op |-> "new"]

\* a handler can start: the loop is single-threaded and the process is alive
Ready == pc = "idle" /\ ~panicked

\* m without the entry for key k
MapRemove(m, k) == [x \in DOMAIN m \ {k} |-> m[x]]
\* m with the entry for key k set to v
MapInsert(m, k, v) == [x \in DOMAIN m \cup {k} |-> IF x = k THEN v ELSE m[x]]
\* AHashMap::get
MapGet(m, k) == IF k \in DOMAIN m THEN Some(m[k]) ELSE None

(***************************************************************************)
(* Action, the values handed to the sink                                   *)
(***************************************************************************)
KeyPress(k) == [type |-> "KeyPress", key |-> k]
KeyRelease(k) == [type |-> "KeyRelease", key |-> k]
KeyTap(k) == [type |-> "KeyTap", key |-> k]
MacrosAction(m) == [type |-> "Macros", keys |-> m]
ShellAction(c) == [type |-> "Shell", cmd |-> c]
Rumble(id, ms) == [type |-> "Rumble", id |-> id, ms |-> ms]

(***************************************************************************)
(* StickProcessor: repeat state per controller                             *)
(***************************************************************************)
\* SideRepeatState::default()
DefaultSide ==
    [scroll_accum |-> << 0, 0 >>,
     arrows |-> [i \in 0..3 |-> None],
     volume |-> [i \in 0..3 |-> None],
     brightness |-> [i \in 0..3 |-> None]]

\* ControllerRepeatState::default()
DefaultRepeatState == [sides |-> [s \in 0..1 |-> DefaultSide]]

ReleaseAllForKeepsSlots(sc, id) == sc

\* StickProcessor::release_all_for
ReleaseAllFor(sc, id) == MapRemove(sc, id)

\* StickProcessor::release_all_arrows
ReleaseAllArrows(sc) ==
    [cid \in DOMAIN sc |->
        [sides |-> [s \in 0..1 |->
            [sc[cid].sides[s] EXCEPT !.arrows = [i \in 0..3 |-> None]]]]]

OnAppChangeKeepsAccum(sc) == ReleaseAllArrows(sc)

\* StickProcessor::on_app_change
OnAppChange(sc) ==
    LET released == ReleaseAllArrows(sc)
    IN  [cid \in DOMAIN released |->
            [sides |-> [s \in 0..1 |->
                [released[cid].sides[s] EXCEPT !.scroll_accum = << 0, 0 >>]]]]

\* CompiledStickRules::from_rules
FromRules(rules) == << MapGet(rules, "Left"), MapGet(rules, "Right") >>
\* CompiledStickRules::left, ::right
CompiledLeft(c) == c[1]
CompiledRight(c) == c[2]

\* util::axis_index
AxisIndex(axis) ==
    CASE axis = "LeftX" -> 0
      [] axis = "LeftY" -> 1
      [] axis = "RightX" -> 2
      [] axis = "RightY" -> 3
      [] axis = "LeftTrigger" -> 4
      [] axis = "RightTrigger" -> 5

\* util::axes_for_side
AxesForSide(axes, side) ==
    IF side = "Left"
    THEN << axes[AxisIndex("LeftX")], axes[AxisIndex("LeftY")] >>
    ELSE << axes[AxisIndex("RightX")], axes[AxisIndex("RightY")] >>

\* util::invert_xy
InvertXY(x, y, invert_x, invert_y) ==
    << IF invert_x THEN -x ELSE x, IF invert_y THEN -y ELSE y >>

Abs(v) == IF v < 0 THEN -v ELSE v

Sides == << "Left", "Right" >>

\* bindings.left() or bindings.right()
CompiledSide(c, side) == IF side = "Left" THEN CompiledLeft(c) ELSE CompiledRight(c)

\* matches!(bindings.<side>(), Some(StickMode::<mode>(_)))
SideHasMode(c, side, mode) ==
    IsSome(CompiledSide(c, side)) /\ Unwrap(CompiledSide(c, side)).mode = mode

\* history: the stick of `side` is at or beyond the deadzone radius of the Arrows
\* mode bound to that side
ArrowsOutside(ctrls, compiled, cid, side) ==
    /\ cid \in DOMAIN ctrls
    /\ IsSome(compiled)
    /\ SideHasMode(Unwrap(compiled), side, "Arrows")
    /\ LET xy == AxesForSide(ctrls[cid].axes, side)
           dz == Unwrap(CompiledSide(Unwrap(compiled), side)).deadzone
       IN  xy[1] * xy[1] + xy[2] * xy[2] >= dz * dz

\* history: the pairs of `p` whose stick is still inside the deadzone
StillParked(p, ctrls, compiled) ==
    {cs \in p : ~ArrowsOutside(ctrls, compiled, cs[1], cs[2])}

(***************************************************************************)
(* Gamacros: profile, application and controller operations                *)
(***************************************************************************)
\* Gamacros::is_known
IsKnown(id) == id \in DOMAIN controllers

\* every controller taken to support rumble
SupportsRumbleAlways(id) == TRUE

\* Gamacros::supports_rumble
SupportsRumble(id) == IF IsKnown(id) THEN controllers[id].rumble ELSE FALSE

\* Gamacros::remove_workspace
RemoveWorkspace ==
    /\ Ready
    /\ workspace' = None
    /\ active_stick_rules' = None
    /\ compiled_stick_rules' = None
    /\ sink' = << >>
    /\ last' = [op |-> "remove_workspace", prev_controllers |-> controllers]
    /\ UNCHANGED << active_app, controllers, stickVars, clock, pc, parked,
                    panicked, connected, backendVars, keys_down >>

\* set_workspace keeping the stick rules of the profile it replaces
SetWorkspaceRulesKept(p) == active_stick_rules

\* the stick rules set_workspace computes for the active app
SetWorkspaceRules(p) ==
    IF active_app /= ""
    THEN IF active_app \in DOMAIN p.rules
         THEN Some(p.rules[active_app].sticks)
         ELSE None
    ELSE active_stick_rules

\* set_workspace rebuilding every controller state from the new profile
SetWorkspaceRebuildsControllers(p) ==
    [id \in DOMAIN controllers |->
        [controllers[id] EXCEPT !.pressed = BitmaskEmpty]]

\* the controller states set_workspace leaves behind
SetWorkspaceControllers(p) == controllers

\* Gamacros::set_workspace
SetWorkspace(p) ==
    /\ Ready
    /\ workspace' = Some(p)
    /\ active_stick_rules' = SetWorkspaceRules(p)
    /\ compiled_stick_rules' =
          IF active_app /= ""
          THEN IF IsSome(active_stick_rules')
               THEN Some(FromRules(Unwrap(active_stick_rules')))
               ELSE None
          ELSE compiled_stick_rules
    /\ controllers' = SetWorkspaceControllers(p)
    /\ sink' = << >>
    /\ last' = [op |-> "set_workspace", profile |-> p, prev_controllers |-> controllers]
    /\ UNCHANGED << active_app, stickVars, clock, pc, panicked, connected, backendVars, keys_down >>
    /\ parked' = StillParked(parked, controllers', compiled_stick_rules')

\* the ControllerState add_controller builds
NewControllerState(info) ==
    LET settings == MapGet(Unwrap(workspace).controllers,
                           << info.vendor_id, info.product_id >>)
    IN  [mapping |-> IF IsSome(settings) THEN Unwrap(settings) ELSE EmptyMap,
         pressed |-> BitmaskEmpty,
         rumble |-> info.supports_rumble,
         axes |-> [i \in 0..5 |-> 0]]

\* Gamacros::add_controller, called with the info of a Connected event
AddController(id) ==
    /\ Ready
    /\ connected' = connected \cup {id}
    /\ controllers' =
          IF workspace = None
          THEN controllers
          ELSE MapInsert(controllers, id, NewControllerState(ControllerInfo(id)))
    /\ sink' = << >>
    /\ last' = [op |-> "add_controller", id |-> id, prev |-> MapGet(controllers, id)]
    /\ UNCHANGED << workspace, active_app, active_stick_rules, compiled_stick_rules,
                    stickVars, clock, pc, parked, panicked, backendVars, keys_down >>

\* Gamacros::remove_controller, called on a Disconnected event
RemoveController(id) ==
    /\ Ready
    /\ connected' = connected \ {id}
    /\ controllers' = MapRemove(controllers, id)
    /\ sink' = << >>
    /\ last' = [op |-> "remove_controller", id |-> id]
    /\ UNCHANGED << workspace, active_app, active_stick_rules, compiled_stick_rules,
                    stickVars, clock, pc, parked, panicked, backendVars, keys_down >>

\* Gamacros::on_controller_disconnected
OnControllerDisconnected(id) ==
    /\ Ready
    /\ stick_controllers' = ReleaseAllFor(stick_controllers, id)
    \* the heap is left as it is; g_orphan (history) marks the entries that
    \* were pushed for this controller before the call
    /\ schedule' = {IF e.id.controller = id THEN [e EXCEPT !.g_orphan = TRUE] ELSE e :
                        e \in schedule}
    /\ sink' = << >>
    /\ last' = [op |-> "on_controller_disconnected", id |-> id]
    /\ UNCHANGED << gamacrosVars, generation, seq_counter, seq_wrapped, clock, pc,
                    parked, panicked, connected, backendVars, keys_down >>

\* the guard of set_active_app: the reported app is the active one
SameAppNever(app) == FALSE
SameApp(app) == active_app = app

\* Gamacros::set_active_app
SetActiveApp(app) ==
    /\ Ready
    /\ IF SameApp(app)
       THEN UNCHANGED << active_app, stick_controllers, active_stick_rules,
                         compiled_stick_rules >>
       ELSE /\ active_app' = app
            /\ stick_controllers' = OnAppChange(stick_controllers)
            /\ IF workspace = None
               THEN UNCHANGED << active_stick_rules, compiled_stick_rules >>
               ELSE /\ active_stick_rules' =
                         IF app \in DOMAIN Unwrap(workspace).rules
                         THEN Some(Unwrap(workspace).rules[app].sticks)
                         ELSE None
                    /\ compiled_stick_rules' =
                         IF IsSome(active_stick_rules')
                         THEN Some(FromRules(Unwrap(active_stick_rules')))
                         ELSE None
    /\ sink' = << >>
    /\ last' = [op |-> "set_active_app", app |-> app, prev_app |-> active_app,
                prev |-> << gamacrosVars, stickVars >>]
    /\ UNCHANGED << workspace, controllers, generation, schedule, seq_counter, seq_wrapped, clock,
                    pc, panicked, connected, backendVars, keys_down >>
    /\ parked' = StillParked(parked, controllers', compiled_stick_rules')

\* an axis event writing the value to every axis of the controller
SetAxisAll(axes, idx, value) == [i \in DOMAIN axes |-> value]

\* `st.axes[idx] = value`
SetAxis(axes, idx, value) == [axes EXCEPT ![idx] = value]

\* Gamacros::on_axis_motion
OnAxisMotion(id, axis, value) ==
    /\ Ready
    /\ controllers' =
          IF IsKnown(id)
          THEN [controllers EXCEPT
                   ![id].axes = SetAxis(controllers[id].axes, AxisIndex(axis), value)]
          ELSE controllers
    /\ sink' = << >>
    /\ last' = [op |-> "on_axis_motion", id |-> id, axis |-> axis, value |-> value]
    /\ UNCHANGED << workspace, active_app, active_stick_rules, compiled_stick_rules,
                    stickVars, clock, pc, panicked, connected, backendVars, keys_down >>
    /\ parked' = StillParked(parked, controllers', compiled_stick_rules')

(***************************************************************************)
(* Button engine: Gamacros::on_button_with                                 *)
(***************************************************************************)
\* the orders in which an AHashMap can iterate over the keys S
Orders(S) ==
    {o \in [1..Cardinality(S) -> S] : \A i, j \in DOMAIN o : i /= j => o[i] /= o[j]}

\* state.mapping.mapping.get(&button).unwrap_or(&button)
Remap(mapping, button) ==
    IF button \in DOMAIN mapping THEN mapping[button] ELSE button

\* state.pressed after the insert or the remove
UpdatePressed(pressed, button, phase) ==
    IF phase = "Pressed"
    THEN BitmaskInsert(pressed, button)
    ELSE BitmaskRemove(pressed, button)

\* `fire` by the level of the chord instead of its edge
FireByLevel(phase, prev_pressed, now_pressed, target) ==
    LET was == BitmaskIsSuperset(prev_pressed, target)
        is_now == BitmaskIsSuperset(now_pressed, target)
    IN  IF phase = "Pressed" THEN is_now ELSE was /\ ~is_now

\* `fire` that on a release asks only whether the chord was held
FireWasHeld(phase, prev_pressed, now_pressed, target) ==
    LET was == BitmaskIsSuperset(prev_pressed, target)
        is_now == BitmaskIsSuperset(now_pressed, target)
    IN  IF phase = "Pressed" THEN was /= is_now ELSE was

\* `fire` of both passes
Fire(phase, prev_pressed, now_pressed, target) ==
    LET was == BitmaskIsSuperset(prev_pressed, target)
        is_now == BitmaskIsSuperset(now_pressed, target)
    IN  IF phase = "Pressed" THEN was /= is_now ELSE was /\ ~is_now

\* first pass: max_bits among the rules that fire (the result does not depend
\* on the order in which the map is iterated)
RECURSIVE MaxBits(_, _, _, _, _)
MaxBits(targets, phase, prev_pressed, now_pressed, max_bits) ==
    IF targets = {} THEN max_bits
    ELSE LET target == CHOOSE t \in targets : TRUE
             bits == BitmaskCount(target)
         IN  MaxBits(targets \ {target}, phase, prev_pressed, now_pressed,
                     IF Fire(phase, prev_pressed, now_pressed, target) /\ bits > max_bits
                     THEN bits ELSE max_bits)

\* the second pass without the cardinality test
ExecutesAnySize(phase, prev_pressed, now_pressed, target, max_bits) ==
    Fire(phase, prev_pressed, now_pressed, target)

\* second pass: whether the rule of `target` is executed
Executes(phase, prev_pressed, now_pressed, target, max_bits) ==
    ~(~Fire(phase, prev_pressed, now_pressed, target)
      \/ BitmaskCount(target) /= max_bits)

\* rule actions that run Shell rules on release as well
RuleActionsShellOnRelease(id, rule, phase) ==
    IF phase = "Pressed"
    THEN (IF IsSome(rule.vibrate) /\ SupportsRumble(id)
          THEN << Rumble(id, Unwrap(rule.vibrate)) >> ELSE << >>)
         \o (CASE rule.action.kind = "Keystroke" -> << KeyPress(rule.action.key) >>
               [] rule.action.kind = "Macros" -> << MacrosAction(rule.action.keys) >>
               [] rule.action.kind = "Shell" -> << ShellAction(rule.action.cmd) >>)
    ELSE CASE rule.action.kind = "Keystroke" -> << KeyRelease(rule.action.key) >>
           [] rule.action.kind = "Macros" -> << MacrosAction(rule.action.keys) >>
           [] rule.action.kind = "Shell" -> << ShellAction(rule.action.cmd) >>

\* the actions one executed rule hands to the sink
RuleActions(id, rule, phase) ==
    IF phase = "Pressed"
    THEN (IF IsSome(rule.vibrate) /\ SupportsRumble(id)
          THEN << Rumble(id, Unwrap(rule.vibrate)) >> ELSE << >>)
         \o (CASE rule.action.kind = "Keystroke" -> << KeyPress(rule.action.key) >>
               [] rule.action.kind = "Macros" -> << MacrosAction(rule.action.keys) >>
               [] rule.action.kind = "Shell" -> << ShellAction(rule.action.cmd) >>)
    ELSE IF rule.action.kind = "Keystroke"
         THEN << KeyRelease(rule.action.key) >>
         ELSE << >>

\* second pass over the executed rules, in the map's iteration order
RECURSIVE SecondPass(_, _, _, _)
SecondPass(order, buttons, id, phase) ==
    IF order = << >> THEN << >>
    ELSE RuleActions(id, buttons[Head(order)], phase)
         \o SecondPass(Tail(order), buttons, id, phase)

\* the chords whose rule the second pass executes
Dispatched(buttons, phase, prev_pressed, now_pressed, max_bits) ==
    IF max_bits = 0 THEN {}
    ELSE {t \in DOMAIN buttons :
            Executes(phase, prev_pressed, now_pressed, t, max_bits)}

\* Gamacros::on_button_with, for a button event of a connected controller
OnButtonWith(id, button, phase) ==
    /\ Ready
    /\ id \in connected
    /\ IF workspace = None \/ active_app \notin DOMAIN Unwrap(workspace).rules
       THEN /\ sink' = << >>
            /\ last' = [op |-> "on_button", id |-> id, button |-> button,
                        phase |-> phase, ran |-> FALSE]
            /\ UNCHANGED << controllers, panicked >>
       ELSE IF ~IsKnown(id)
       THEN \* expect("device must be added before use")
            /\ panicked' = TRUE
            /\ sink' = << >>
            /\ last' = [op |-> "on_button", id |-> id, button |-> button,
                        phase |-> phase, ran |-> FALSE]
            /\ UNCHANGED controllers
       ELSE LET buttons == Unwrap(workspace).rules[active_app].buttons
                state == controllers[id]
                prev_pressed == state.pressed
            IN  \E mapped \in {Remap(state.mapping, button)} :
                \E now_pressed \in {UpdatePressed(state.pressed, mapped, phase)} :
                \E max_bits \in {MaxBits(DOMAIN buttons, phase, prev_pressed,
                                         now_pressed, 0)} :
                \E dispatched \in {Dispatched(buttons, phase, prev_pressed,
                                              now_pressed, max_bits)} :
                \E order \in Orders(dispatched) :
                    /\ controllers' = [controllers EXCEPT ![id].pressed = now_pressed]
                    /\ sink' = SecondPass(order, buttons, id, phase)
                    /\ last' = [op |-> "on_button", id |-> id, button |-> button,
                                phase |-> phase, ran |-> TRUE, mapped |-> mapped,
                                prev_pressed |-> prev_pressed,
                                dispatched |-> dispatched]
                    /\ UNCHANGED panicked
    /\ UNCHANGED << workspace, active_app, active_stick_rules, compiled_stick_rules,
                    stickVars, clock, pc, parked, connected, backendVars >>

\* a button event whose actions nobody follows up
OnButton(id, button, phase) ==
    /\ OnButtonWith(id, button, phase)
    /\ UNCHANGED keys_down

\* ActionRunner::run on the actions of one event: KeyPress holds the key down
\* and KeyRelease lets it go; the other actions hold nothing
RECURSIVE RunKeys(_, _, _)
RunKeys(down, id, actions) ==
    IF actions = << >>
    THEN down
    ELSE RunKeys(CASE Head(actions).type = "KeyPress" -> down \cup {<< id, Head(actions).key >>}
                   [] Head(actions).type = "KeyRelease" -> down \ {<< id, Head(actions).key >>}
                   [] OTHER -> down,
                 id, Tail(actions))

\* a button event whose actions the runner performs
OnButtonRun(id, button, phase) ==
    /\ OnButtonWith(id, button, phase)
    /\ keys_down' = RunKeys(keys_down, id, sink')

(***************************************************************************)
(* The button engine under one profile and one application, with the keys  *)
(* the runner holds down                                                   *)
(***************************************************************************)
NextKeys ==
    \/ workspace = None /\ SetWorkspace(ProfileChords)
    \/ \E id \in ControllerIds : id \notin connected /\ AddController(id)
    \/ active_app = "" /\ SetActiveApp("demo")
    \/ \E id \in ControllerIds, b \in EventButtons, ph \in Phases : OnButtonRun(id, b, ph)

SpecKeys == Init /\ [][NextKeys]_vars

(***************************************************************************)
(* The button engine under profile, application and controller events      *)
(***************************************************************************)
NextButtons ==
    \/ \E p \in ButtonProfiles : SetWorkspace(p)
    \/ RemoveWorkspace
    \/ \E id \in ControllerIds : AddController(id)
    \/ \E id \in ControllerIds : RemoveController(id)
    \/ \E app \in Apps : SetActiveApp(app)
    \/ \E id \in ControllerIds, b \in EventButtons, ph \in Phases : OnButton(id, b, ph)
    \/ \E id \in ControllerIds, v \in {0, AxisScale} : OnAxisMotion(id, "LeftX", v)

SpecButtons == Init /\ [][NextButtons]_vars

(***************************************************************************)
(* Repeat scheduler: app/stick/repeat.rs                                   *)
(*                                                                         *)
(* A StickProcessor value is the record                                    *)
(*   [controllers, generation, schedule, seq_counter].                     *)
(* Fields whose names start with g_ are history the program does not keep: *)
(* they record when a slot was created and under which parameters a heap   *)
(* entry was pushed, and no operation reads them.                          *)
(***************************************************************************)
Processor ==
    [controllers |-> stick_controllers, generation |-> generation,
     schedule |-> schedule, seq_counter |-> seq_counter]

Directions == {"Up", "Down", "Left", "Right"}

\* StickProcessor::dir_index
DirIndex(dir) ==
    CASE dir = "Up" -> 0 [] dir = "Down" -> 1 [] dir = "Left" -> 2 [] dir = "Right" -> 3

\* StickProcessor::step_slot_index
StepSlotIndex(axis, positive) ==
    CASE axis = "X" /\ ~positive -> 0
      [] axis = "X" /\ positive -> 1
      [] axis = "Y" /\ ~positive -> 2
      [] axis = "Y" /\ positive -> 3

\* util::side_index
SideIndex(side) == IF side = "Left" THEN 0 ELSE 1

\* RepeatKind
ArrowKind(dir) == [tag |-> "Arrow", dir |-> dir]
VolumeKind(axis, positive) == [tag |-> "Volume", axis |-> axis, positive |-> positive]
BrightnessKind(axis, positive) ==
    [tag |-> "Brightness", axis |-> axis, positive |-> positive]

\* RepeatTaskId
RepeatTaskId(cid, side, kind) == [controller |-> cid, side |-> side, kind |-> kind]

\* the array of SideRepeatState and the index in it that hold the slot of `kind`
SlotArray(kind) ==
    CASE kind.tag = "Arrow" -> "arrows"
      [] kind.tag = "Volume" -> "volume"
      [] kind.tag = "Brightness" -> "brightness"
SlotIndex(kind) ==
    IF kind.tag = "Arrow" THEN DirIndex(kind.dir)
    ELSE StepSlotIndex(kind.axis, kind.positive)

\* StickProcessor::slot_for
SlotFor(ctrls, id) ==
    IF id.controller \notin DOMAIN ctrls THEN None
    ELSE ctrls[id.controller].sides[SideIndex(id.side)][SlotArray(id.kind)][SlotIndex(id.kind)]

\* writing through the reference StickProcessor::slot_for_mut returns
SetSlot(ctrls, id, slot) ==
    [ctrls EXCEPT ![id.controller].sides[SideIndex(id.side)][SlotArray(id.kind)][SlotIndex(id.kind)] = slot]

\* a counter whose wrap-around lands on zero
NextSeqThroughZero(counter) == (counter + 1) % SeqModulus

\* StickProcessor::next_seq: wrapping_add(1), and 1 in place of 0
NextSeq(counter) ==
    IF (counter + 1) % SeqModulus = 0 THEN 1 ELSE (counter + 1) % SeqModulus

\* the parameters of a task that `changed` compares
TaskParams(st) ==
    [key |-> st.key, interval_ms |-> st.interval_ms,
     initial_delay_ms |-> st.initial_delay_ms, fire_on_activate |-> st.fire_on_activate]

\* StickProcessor::push_due
PushDue(sched, id, seq, due, g_params) ==
    sched \cup {[due |-> due, id |-> id, seq |-> seq, g_params |-> g_params,
                 g_orphan |-> FALSE]}

\* no entry taken for stale
EntryNeverStale(ctrls, entry) == FALSE

\* StickProcessor::entry_is_stale
EntryIsStale(ctrls, entry) ==
    LET slot == SlotFor(ctrls, entry.id)
    IN  IF slot = None THEN TRUE ELSE Unwrap(slot).seq /= entry.seq

\* BinaryHeap::peek: an entry of least due time (Ord compares `due` alone)
Tops(sched) == {e \in sched : \A f \in sched : e.due <= f.due}

\* RepeatReg
RepeatReg(id, key, fire_on_activate, initial_delay_ms, interval_ms) ==
    [id |-> id, key |-> key, fire_on_activate |-> fire_on_activate,
     initial_delay_ms |-> initial_delay_ms, interval_ms |-> interval_ms]

\* every refresh treated as a change of parameters
ChangedAlways(st, reg) == TRUE

\* `changed` of repeater_register
Changed(st, reg) ==
    \/ st.key /= reg.key
    \/ st.interval_ms /= reg.interval_ms
    \/ st.initial_delay_ms /= reg.initial_delay_ms
    \/ st.fire_on_activate /= reg.fire_on_activate

\* the time an entry is scheduled after, in the state `delay_done`
DueMs(delay_done, initial_delay_ms, interval_ms) ==
    IF delay_done THEN interval_ms ELSE initial_delay_ms

\* an occupied slot keeping its seq when its parameters change
RegisterSeqKept(st, changed, seq_new) == st.seq

\* the seq of an occupied slot after repeater_register: `st.seq = seq_new` under
\* `if changed`
RegisterSeq(st, changed, seq_new) == IF changed THEN seq_new ELSE st.seq

\* an occupied slot tapping again when its parameters change
RegisterOccupiedTapOnChange(st, reg, changed) ==
    IF changed THEN Some(KeyTap(reg.key)) ELSE None

\* the action repeater_register returns for an occupied slot
RegisterOccupiedAction(st, reg, changed) == None

\* StickProcessor::repeater_register: [sp |-> the processor after, action |-> returned]
RepeaterRegister(sp, reg, now) ==
    LET seq_new == NextSeq(sp.seq_counter)
        cid == reg.id.controller
        \* self.controllers.entry(cid).or_default()
        ctrls == IF cid \in DOMAIN sp.controllers THEN sp.controllers
                 ELSE MapInsert(sp.controllers, cid, DefaultRepeatState)
        slot == SlotFor(ctrls, reg.id)
    IN  IF IsSome(slot)
        THEN LET st == Unwrap(slot)
                 changed == Changed(st, reg)
                 st1 == [st EXCEPT !.key = reg.key,
                                   !.interval_ms = reg.interval_ms,
                                   !.initial_delay_ms = reg.initial_delay_ms,
                                   !.fire_on_activate = reg.fire_on_activate,
                                   !.last_seen_generation = sp.generation,
                                   !.seq = RegisterSeq(st, changed, seq_new),
                                   !.g_changed = st.g_changed \/ changed]
                 due_ms == DueMs(st1.delay_done, st1.initial_delay_ms, st1.interval_ms)
             IN  [sp |-> [controllers |-> SetSlot(ctrls, reg.id, Some(st1)),
                          generation |-> sp.generation,
                          schedule |-> IF changed /\ due_ms > 0
                                       THEN PushDue(sp.schedule, reg.id, st1.seq,
                                                    now + due_ms, TaskParams(st1))
                                       ELSE sp.schedule,
                          seq_counter |-> seq_new],
                  action |-> RegisterOccupiedAction(st, reg, changed)]
        ELSE LET delay_done == reg.initial_delay_ms = 0
                 st == [key |-> reg.key,
                        fire_on_activate |-> reg.fire_on_activate,
                        initial_delay_ms |-> reg.initial_delay_ms,
                        interval_ms |-> reg.interval_ms,
                        last_fire |-> now,
                        delay_done |-> delay_done,
                        last_seen_generation |-> sp.generation,
                        seq |-> seq_new,
                        g_created |-> now,
                        g_changed |-> FALSE]
                 due_ms == DueMs(delay_done, reg.initial_delay_ms, reg.interval_ms)
             IN  [sp |-> [controllers |-> SetSlot(ctrls, reg.id, Some(st)),
                          generation |-> sp.generation,
                          schedule |-> IF due_ms > 0
                                       THEN PushDue(sp.schedule, reg.id, seq_new,
                                                    now + due_ms, TaskParams(st))
                                       ELSE sp.schedule,
                          seq_counter |-> seq_new],
                  action |-> IF reg.fire_on_activate THEN Some(KeyTap(reg.key))
                             ELSE None]

\* a side whose slots were last seen in another generation are cleared
CleanupSlots(slots, gen) ==
    [i \in DOMAIN slots |->
        IF IsSome(slots[i]) /\ Unwrap(slots[i]).last_seen_generation /= gen
        THEN None ELSE slots[i]]

\* a cleanup that passes over the arrow slots
RepeaterCleanupKeepsArrows(sp) ==
    [sp EXCEPT !.controllers =
        [cid \in DOMAIN sp.controllers |->
            [sides |-> [s \in 0..1 |->
                [sp.controllers[cid].sides[s] EXCEPT
                    !.volume = CleanupSlots(@, sp.generation),
                    !.brightness = CleanupSlots(@, sp.generation)]]]]]

\* StickProcessor::repeater_cleanup_inactive
RepeaterCleanupInactive(sp) ==
    [sp EXCEPT !.controllers =
        [cid \in DOMAIN sp.controllers |->
            [sides |-> [s \in 0..1 |->
                [sp.controllers[cid].sides[s] EXCEPT
                    !.arrows = CleanupSlots(@, sp.generation),
                    !.volume = CleanupSlots(@, sp.generation),
                    !.brightness = CleanupSlots(@, sp.generation)]]]]]

\* StickProcessor::has_active_repeats
HasActiveRepeats(ctrls) ==
    \E cid \in DOMAIN ctrls : \E s \in 0..1 :
        \/ \E i \in 0..3 : IsSome(ctrls[cid].sides[s].arrows[i])
        \/ \E i \in 0..3 : IsSome(ctrls[cid].sides[s].volume[i])
        \/ \E i \in 0..3 : IsSome(ctrls[cid].sides[s].brightness[i])

(***************************************************************************)
(* Tick: app/stick/tick.rs                                                 *)
(*                                                                         *)
(* Axis values and deadzones are fixed-point numbers with AxisScale for    *)
(* 1.0; times are whole milliseconds.                                      *)
(***************************************************************************)
\* a quantization whose ties prefer the horizontal direction
QuantizeDirectionTieHorizontal(x, y) ==
    LET ax == Abs(x)
        ay == Abs(y)
    IN  IF ax = 0 /\ ay = 0 THEN None
        ELSE IF ax >= ay THEN (IF x > 0 THEN Some("Right") ELSE Some("Left"))
        ELSE IF y > 0 THEN Some("Up")
        ELSE Some("Down")

\* StickProcessor::quantize_direction
QuantizeDirection(x, y) ==
    LET ax == Abs(x)
        ay == Abs(y)
    IN  IF ax = 0 /\ ay = 0 THEN None
        ELSE IF ax > ay THEN (IF x > 0 THEN Some("Right") ELSE Some("Left"))
        ELSE IF ay > ax THEN (IF y > 0 THEN Some("Up") ELSE Some("Down"))
        ELSE IF y > 0 THEN Some("Up")
        ELSE IF y < 0 THEN Some("Down")
        ELSE None

\* StickProcessor::get_direction_key
GetDirectionKey(dir) ==
    CASE dir = "Up" -> "UpArrow"
      [] dir = "Down" -> "DownArrow"
      [] dir = "Left" -> "LeftArrow"
      [] dir = "Right" -> "RightArrow"

\* the direction tick_arrows derives for one side: None inside the deadzone
ArrowDirection(axes, side, params) ==
    LET xy0 == AxesForSide(axes, side)
        xy == InvertXY(xy0[1], xy0[2], params.invert_x, ~params.invert_y)
        mag2 == xy[1] * xy[1] + xy[2] * xy[2]
        dead2 == params.deadzone * params.deadzone
    IN  IF mag2 < dead2 THEN None ELSE QuantizeDirection(xy[1], xy[2])

\* what tick_arrows pushes to `regs` for one controller and one side
ArrowRegs(cid, axes, side, bindings) ==
    IF ~SideHasMode(bindings, side, "Arrows") THEN << >>
    ELSE LET params == Unwrap(CompiledSide(bindings, side))
             new_dir == ArrowDirection(axes, side, params)
         IN  IF new_dir = None THEN << >>
             ELSE << RepeatReg(RepeatTaskId(cid, side, ArrowKind(Unwrap(new_dir))),
                               GetDirectionKey(Unwrap(new_dir)), TRUE,
                               params.repeat_delay_ms, params.repeat_interval_ms) >>

\* StepperMode::key_for (the macOS build, where Brightness is implemented)
KeyFor(mode, positive) ==
    IF mode = "Volume"
    THEN (IF positive THEN "VolumeUp" ELSE "VolumeDown")
    ELSE (IF positive THEN "BrightnessUp" ELSE "BrightnessDown")

\* StepperMode::kind_for
KindFor(mode, axis, positive) ==
    IF mode = "Volume" THEN VolumeKind(axis, positive)
    ELSE BrightnessKind(axis, positive)

\* max + (1 - t) * (min - max) as u64: the cast truncates and saturates at 0
StepperInterval(params, mag) ==
    LET scaled == params.max_interval_ms * AxisScale
                  + (AxisScale - mag) * (params.min_interval_ms - params.max_interval_ms)
    IN  IF scaled <= 0 THEN 0 ELSE scaled \div AxisScale

\* what tick_stepper pushes to `regs` for one controller and one side
StepperRegs(cid, axes, side, bindings, mode) ==
    IF ~SideHasMode(bindings, side, mode) THEN << >>
    ELSE LET step_params == Unwrap(CompiledSide(bindings, side))
             vxy == AxesForSide(axes, side)
             v == IF step_params.axis = "X" THEN vxy[1] ELSE vxy[2]
             mag == Abs(v)
             positive == v >= 0
         IN  IF mag >= step_params.deadzone
             THEN << RepeatReg(RepeatTaskId(cid, side,
                                            KindFor(mode, step_params.axis, positive)),
                               KeyFor(mode, positive), TRUE, 0,
                               StepperInterval(step_params, mag)) >>
             ELSE << >>

RECURSIVE Flatten(_)
Flatten(seqs) == IF seqs = << >> THEN << >> ELSE Head(seqs) \o Flatten(Tail(seqs))

\* `for reg in regs.drain(..)`: r is [sp, actions, log]; the log keeps, for each
\* call, the slot the call found and left, the heap entries pending for the
\* slot it found, and the entries the call pushed
RECURSIVE RegisterAll(_, _, _)
RegisterAll(r, regs, now) ==
    IF regs = << >> THEN r
    ELSE LET reg == Head(regs)
             out == RepeaterRegister(r.sp, reg, now)
         IN  RegisterAll([sp |-> out.sp,
                          actions |-> r.actions \o out.action,
                          log |-> Append(r.log,
                                         [reg |-> reg,
                                          before |-> SlotFor(r.sp.controllers, reg.id),
                                          after |-> SlotFor(out.sp.controllers, reg.id),
                                          pending |-> {e \in r.sp.schedule :
                                              /\ e.id = reg.id
                                              /\ ~EntryIsStale(r.sp.controllers, e)},
                                          pushed |-> out.sp.schedule \ r.sp.schedule,
                                          action |-> out.action])],
                         Tail(regs), now)

\* StickProcessor::tick_arrows
TickArrows(r, now, axes_list, bindings) ==
    RegisterAll(r,
        Flatten([i \in DOMAIN axes_list |->
            ArrowRegs(axes_list[i][1], axes_list[i][2], "Left", bindings)
            \o ArrowRegs(axes_list[i][1], axes_list[i][2], "Right", bindings)]),
        now)

\* StickProcessor::tick_stepper
TickStepper(r, now, axes_list, bindings, mode) ==
    RegisterAll(r,
        Flatten([i \in DOMAIN axes_list |->
            StepperRegs(axes_list[i][1], axes_list[i][2], "Left", bindings, mode)
            \o StepperRegs(axes_list[i][1], axes_list[i][2], "Right", bindings, mode)]),
        now)

\* Action::MouseMove, Action::Scroll
MouseMoveAction(dx, dy) == [type |-> "MouseMove", dx |-> dx, dy |-> dy]
ScrollAction(h, v) == [type |-> "Scroll", h |-> h, v |-> v]

\* f32::round of n / d for d > 0: to the nearest integer, halves away from zero
RoundDiv(n, d) ==
    IF n >= 0 THEN (2 * n + d) \div (2 * d) ELSE -((2 * (-n) + d) \div (2 * d))

\* f32::sqrt, to the resolution of the fixed-point scale
RECURSIVE ISqrtFrom(_, _)
ISqrtFrom(n, r) == IF (r + 1) * (r + 1) > n THEN r ELSE ISqrtFrom(n, r + 1)
ISqrt(n) == ISqrtFrom(n, 0)

\* util::magnitude2d
Magnitude2d(x, y) == ISqrt(x * x + y * y)

\* util::normalize_after_deadzone; a division by 0.0 gives +inf, clamped to 1.0
NormalizeAfterDeadzone(mag, deadzone) ==
    IF mag <= deadzone THEN 0
    ELSE IF deadzone = AxisScale THEN AxisScale
    ELSE IF deadzone > AxisScale THEN 0
    ELSE LET q == ((mag - deadzone) * AxisScale) \div (AxisScale - deadzone)
         IN  IF q > AxisScale THEN AxisScale ELSE q

\* StickProcessor::fast_gamma for the exponents it names (gamma in tenths)
FastGamma(base, gamma) ==
    LET g == IF gamma < 1 THEN 1 ELSE gamma
    IN  CASE g = 10 -> base
          [] g = 5 -> ISqrt(base * AxisScale)
          [] g = 15 -> (base * ISqrt(base * AxisScale)) \div AxisScale
          [] g = 20 -> (base * base) \div AxisScale
          [] g = 30 -> (base * base * base) \div (AxisScale * AxisScale)

\* dt_s of tick_mouse is 1 / MouseDtInv seconds
MouseDtInv == 100
\* dt_s of tick_scroll is 1 / ScrollDtInv seconds
ScrollDtInv == 10

\* what tick_mouse emits for one controller and one side
MouseActions(axes, side, bindings) ==
    IF ~SideHasMode(bindings, side, "MouseMove") THEN << >>
    ELSE LET params == Unwrap(CompiledSide(bindings, side))
             xy0 == AxesForSide(axes, side)
             xy == InvertXY(xy0[1], xy0[2], params.invert_x, params.invert_y)
             mag_raw == Magnitude2d(xy[1], xy[2])
             base == NormalizeAfterDeadzone(mag_raw, params.deadzone)
             mag == FastGamma(base, params.gamma)
             \* speed_px_s * dir * dt_s = max_speed * mag * (x / mag_raw) * dt_s
             dx == RoundDiv(params.max_speed_px_s * mag * xy[1],
                            AxisScale * mag_raw * MouseDtInv)
             dy == RoundDiv(params.max_speed_px_s * mag * xy[2],
                            AxisScale * mag_raw * MouseDtInv)
         IN  IF mag_raw >= params.deadzone /\ mag > 0 /\ (dx /= 0 \/ dy /= 0)
             THEN << MouseMoveAction(dx, dy) >>
             ELSE << >>

\* StickProcessor::tick_mouse
TickMouse(r, axes_list, bindings) ==
    [r EXCEPT !.actions = @ \o
        Flatten([i \in DOMAIN axes_list |->
            MouseActions(axes_list[i][2], "Left", bindings)
            \o MouseActions(axes_list[i][2], "Right", bindings)])]

\* what tick_scroll does for one controller and one side; scroll_accum counts
\* 1 / (ScrollDtInv * AxisScale) of a line
ScrollSide(r, cid, axes, side, bindings) ==
    IF ~SideHasMode(bindings, side, "Scroll") THEN r
    ELSE LET params == Unwrap(CompiledSide(bindings, side))
             xy0 == AxesForSide(axes, side)
             xy == InvertXY(xy0[1], xy0[2], params.invert_x, ~params.invert_y)
             x == IF params.horizontal THEN xy[1] ELSE 0
             y == xy[2]
             mag_raw == IF Abs(x) >= Abs(y) THEN Abs(x) ELSE Abs(y)
             line == ScrollDtInv * AxisScale
             ctrls == IF cid \in DOMAIN r.sp.controllers THEN r.sp.controllers
                      ELSE MapInsert(r.sp.controllers, cid, DefaultRepeatState)
             accum == ctrls[cid].sides[SideIndex(side)].scroll_accum
             a0 == accum[1] + params.speed_lines_s * x
             a1 == accum[2] + params.speed_lines_s * y
             h == RoundDiv(a0, line)
             v == RoundDiv(a1, line)
         IN  IF mag_raw > params.deadzone
             THEN [r EXCEPT
                     !.sp.controllers =
                         [ctrls EXCEPT ![cid].sides[SideIndex(side)].scroll_accum =
                             << a0 - h * line, a1 - v * line >>],
                     !.actions = @ \o (IF h /= 0 THEN << ScrollAction(h, 0) >> ELSE << >>)
                                   \o (IF v /= 0 THEN << ScrollAction(0, v) >> ELSE << >>)]
             ELSE r

\* StickProcessor::tick_scroll
RECURSIVE TickScroll(_, _, _)
TickScroll(r, axes_list, bindings) ==
    IF axes_list = << >> THEN r
    ELSE TickScroll(
            ScrollSide(ScrollSide(r, Head(axes_list)[1], Head(axes_list)[2],
                                  "Left", bindings),
                       Head(axes_list)[1], Head(axes_list)[2], "Right", bindings),
            Tail(axes_list), bindings)

\* a side of `bindings` is bound to `mode`
AnySideHasMode(bindings, mode) ==
    SideHasMode(bindings, "Left", mode) \/ SideHasMode(bindings, "Right", mode)

\* StickProcessor::on_tick_with: [sp, actions, log, ran]; r0 .. r5 are the
\* processor, the emitted actions and the registration log after each step
OnTickWith(sp, bindings, axes_list, now) ==
    IF (axes_list = << >> /\ ~HasActiveRepeats(sp.controllers)) \/ bindings = None
    THEN [sp |-> sp, actions |-> << >>, log |-> << >>, ran |-> FALSE]
    ELSE LET b == Unwrap(bindings)
         IN  CHOOSE out \in
                {[sp |-> RepeaterCleanupInactive(r5.sp), actions |-> r5.actions,
                  log |-> r5.log, ran |-> TRUE] :
                 r5 \in {IF AnySideHasMode(b, "Scroll")
                         THEN TickScroll(r4, axes_list, b) ELSE r4 :
                 r4 \in {IF AnySideHasMode(b, "MouseMove")
                         THEN TickMouse(r3, axes_list, b) ELSE r3 :
                 r3 \in {IF AnySideHasMode(b, "Brightness")
                         THEN TickStepper(r2, now, axes_list, b, "Brightness") ELSE r2 :
                 r2 \in {IF AnySideHasMode(b, "Volume")
                         THEN TickStepper(r1, now, axes_list, b, "Volume") ELSE r1 :
                 r1 \in {IF AnySideHasMode(b, "Arrows")
                         THEN TickArrows(r0, now, axes_list, b) ELSE r0 :
                 \* wrapping_add: MaxGen keeps the counter far below the u64 wrap
                 r0 \in {[sp |-> [sp EXCEPT !.generation = sp.generation + 1],
                          actions |-> << >>, log |-> << >>]}}}}}}} : TRUE

\* history: the pairs a tick that ran saw inside the deadzone of an Arrows mode
SeenInside(ctrls, compiled) ==
    {cs \in (DOMAIN ctrls) \X {"Left", "Right"} :
        /\ IsSome(compiled)
        /\ SideHasMode(Unwrap(compiled), cs[2], "Arrows")
        /\ ~ArrowsOutside(ctrls, compiled, cs[1], cs[2])}

\* Gamacros::on_tick_with at time `clock`
OnTickWithin(max_gen, max_seq) ==
    /\ Ready
    /\ generation < max_gen
    /\ \E order \in Orders(DOMAIN controllers) :
       \E r \in {OnTickWith(Processor, compiled_stick_rules,
                            [i \in DOMAIN order |->
                                << order[i], controllers[order[i]].axes >>],
                            clock)} :
            /\ r.sp.seq_counter <= max_seq
            /\ stick_controllers' = r.sp.controllers
            /\ generation' = r.sp.generation
            /\ schedule' = r.sp.schedule
            /\ seq_counter' = r.sp.seq_counter
            /\ seq_wrapped' = (seq_wrapped \/ r.sp.seq_counter < seq_counter)
            /\ sink' = r.actions
            /\ last' = [op |-> "on_tick", ran |-> r.ran, now |-> clock, log |-> r.log]
            /\ parked' = IF r.ran
                         THEN parked \cup SeenInside(controllers, compiled_stick_rules)
                         ELSE parked
    /\ UNCHANGED << gamacrosVars, clock, pc, panicked, connected, backendVars, keys_down >>

OnTick == OnTickWithin(MaxGen, MaxSeq)

(***************************************************************************)
(* Draining the schedule                                                   *)
(***************************************************************************)
\* the reschedule waiting for the initial delay instead of the interval
NextDueAfterDelay(now, st) == now + st.initial_delay_ms

\* next_due of process_due_repeats
NextDue(now, st) == now + st.interval_ms

\* the loop of process_due_repeats from the state r = [sp, actions, fired,
\* discarded, returns]; the result is the set of outcomes, one for each order in
\* which the heap can yield entries of equal due time.  `fired` and `discarded`
\* log the entries popped; `returns` is FALSE when an iteration leaves the
\* processor as it found it, so that the loop goes on for ever.
RECURSIVE ProcessDueLoop(_, _)
RECURSIVE ProcessDueIteration(_, _, _)
ProcessDueLoop(r, now) ==
    IF r.sp.schedule = {} THEN {r}
    ELSE UNION {ProcessDueIteration(r, top, now) : top \in Tops(r.sp.schedule)}

\* one iteration of the loop with `top` as the entry peek() returns
ProcessDueIteration(r, top, now) ==
    IF EntryIsStale(r.sp.controllers, top)
    THEN ProcessDueLoop([r EXCEPT !.sp.schedule = @ \ {top},
                                  !.discarded = Append(@, top)], now)
    ELSE IF top.due <= now
    THEN LET popped == r.sp.schedule \ {top}
             slot == SlotFor(r.sp.controllers, top.id)
             fires == IsSome(slot) /\ Unwrap(slot).seq = top.seq
             st == [Unwrap(slot) EXCEPT !.last_fire = now, !.delay_done = TRUE]
             sp1 == IF fires
                    THEN [r.sp EXCEPT
                            !.controllers = SetSlot(@, top.id, Some(st)),
                            !.schedule = PushDue(popped, top.id, st.seq,
                                                 NextDue(now, st), TaskParams(st))]
                    ELSE [r.sp EXCEPT !.schedule = popped]
             r1 == [sp |-> sp1,
                    actions |-> IF fires THEN Append(r.actions, KeyTap(st.key))
                                ELSE r.actions,
                    fired |-> IF fires
                              THEN Append(r.fired, [entry |-> top, before |-> Unwrap(slot)])
                              ELSE r.fired,
                    discarded |-> r.discarded,
                    returns |-> TRUE]
         IN  IF sp1 = r.sp THEN {[r1 EXCEPT !.returns = FALSE]}
             ELSE ProcessDueLoop(r1, now)
    ELSE {r}

\* the loop of next_repeat_due: the outcomes [schedule, due]
RECURSIVE NextRepeatDueLoop(_, _)
NextRepeatDueLoop(sched, ctrls) ==
    IF sched = {} THEN {[schedule |-> sched, due |-> None]}
    ELSE UNION {IF EntryIsStale(ctrls, top)
                THEN NextRepeatDueLoop(sched \ {top}, ctrls)
                ELSE {[schedule |-> sched, due |-> Some(top.due)]} :
                top \in Tops(sched)}

\* Gamacros::process_due_repeats(now) with now the current time
ProcessDueRepeats ==
    /\ Ready
    /\ \E r \in ProcessDueLoop([sp |-> Processor, actions |-> << >>, fired |-> << >>,
                                discarded |-> << >>, returns |-> TRUE], clock) :
            /\ stick_controllers' = r.sp.controllers
            /\ schedule' = r.sp.schedule
            /\ sink' = r.actions
            \* hint (history): what next_repeat_due returns when called just
            \* before the pass
            /\ last' = [op |-> "process_due_repeats", now |-> clock, fired |-> r.fired,
                        discarded |-> r.discarded, returns |-> r.returns,
                        hint |-> {x.due : x \in NextRepeatDueLoop(schedule,
                                                                 stick_controllers)}]
            /\ pc' = IF r.returns THEN "idle" ELSE "spin"
    /\ UNCHANGED << gamacrosVars, generation, seq_counter, seq_wrapped, clock, parked, panicked,
                    connected, backendVars, keys_down >>

\* Gamacros::next_repeat_due
NextRepeatDue ==
    /\ Ready
    /\ \E r \in NextRepeatDueLoop(schedule, stick_controllers) :
            /\ schedule' = r.schedule
            /\ sink' = << >>
            /\ last' = [op |-> "next_repeat_due", due |-> r.due,
                        popped |-> schedule \ r.schedule]
    /\ UNCHANGED << gamacrosVars, stick_controllers, generation, seq_counter, seq_wrapped, clock,
                    pc, parked, panicked, connected, backendVars, keys_down >>

\* time passes between two calls
AdvanceClockUntil(d, max_time) ==
    /\ Ready
    /\ clock + d <= max_time
    /\ clock' = clock + d
    /\ sink' = << >>
    /\ last' = [op |-> "advance", d |-> d]
    /\ UNCHANGED << gamacrosVars, stickVars, pc, parked, panicked, connected, backendVars, keys_down >>

AdvanceClock(d) == AdvanceClockUntil(d, MaxTime)

(***************************************************************************)
(* Wake hints of the facade and the scheduling shell that reads them       *)
(***************************************************************************)
\* the 0.05 of has_axis_activity(0.05)
ActivityThreshold == 5

\* Gamacros::has_tick_modes
HasTickModes ==
    IF compiled_stick_rules = None THEN FALSE
    ELSE \E side \in {"Left", "Right"} :
            \E mode \in {"Arrows", "Volume", "Brightness", "MouseMove", "Scroll"} :
                SideHasMode(Unwrap(compiled_stick_rules), side, mode)

\* axis activity counted only above the threshold
HasAxisActivityStrict(threshold) ==
    \E id \in DOMAIN controllers :
        \E i \in 0..5 : Abs(controllers[id].axes[i]) > threshold

\* Gamacros::has_axis_activity
HasAxisActivity(threshold) ==
    \E id \in DOMAIN controllers :
        \E i \in 0..5 : Abs(controllers[id].axes[i]) >= threshold

\* Gamacros::needs_tick
NeedsTick ==
    \/ HasTickModes /\ HasAxisActivity(ActivityThreshold)
    \/ HasActiveRepeats(stick_controllers)

\* Gamacros::wants_fast_tick
WantsFastTick ==
    \/ HasAxisActivity(ActivityThreshold)
    \/ HasActiveRepeats(stick_controllers)

\* the tick periods of the shell in milliseconds
FastPeriod == 10
IdlePeriod == 16

\* the one-shot wake armed for a next tick and a next repeat time taking only
\* the repeat time
WakeAtRepeatOnly(next_tick, next_repeat) == next_repeat

\* the one-shot wake armed for a next tick and a next repeat time: the earlier
\* of the two, None when both are None
WakeAt(next_tick, next_repeat) ==
    CASE next_tick = None -> next_repeat
      [] next_repeat = None -> next_tick
      [] OTHER -> IF Unwrap(next_tick) <= Unwrap(next_repeat)
                  THEN next_tick ELSE next_repeat

\* step 5 of the shell's iteration: the wake to arm is computed from
\* needs_tick, wants_fast_tick and next_repeat_due; `timers` holds the wakes
\* armed after the step
Reschedule ==
    /\ Ready
    /\ \E r \in NextRepeatDueLoop(schedule, stick_controllers) :
         \E next_tick \in {IF NeedsTick
                            THEN Some(clock + (IF WantsFastTick THEN FastPeriod
                                               ELSE IdlePeriod))
                            ELSE None} :
         \E wake \in {WakeAt(next_tick, r.due)} :
            /\ schedule' = r.schedule
            /\ sink' = << >>
            /\ last' = [op |-> "reschedule", now |-> clock,
                        needs_tick |-> NeedsTick, wants_fast_tick |-> WantsFastTick,
                        next_tick |-> next_tick, next_repeat |-> r.due,
                        timers |-> IF wake = None THEN {} ELSE {Unwrap(wake)}]
    /\ UNCHANGED << gamacrosVars, stick_controllers, generation, seq_counter, seq_wrapped, clock,
                    pc, parked, panicked, connected, backendVars, keys_down >>

(***************************************************************************)
(* The stick processor of one controller under profile, application, axis  *)
(* and timer events                                                        *)
(***************************************************************************)
StickController == 1

\* the axis events of the arrow runs: the left stick at rest and at full deflection
StickAxisInputs == {"LeftX"} \X {0, AxisScale}

NextSticks ==
    \/ \E p \in StickProfiles : SetWorkspace(p)
    \/ AddController(StickController)
    \/ SetActiveApp("demo")
    \/ \E in \in StickAxisInputs : OnAxisMotion(StickController, in[1], in[2])
    \/ OnTick
    \/ ProcessDueRepeats
    \/ NextRepeatDue
    \/ \E d \in 1..MaxStep : AdvanceClock(d)

SpecSticks == Init /\ [][NextSticks]_vars

(***************************************************************************)
(* The same controller while profiles are installed and removed and the    *)
(* active application changes                                              *)
(***************************************************************************)
\* the left stick at rest and at full deflection, the right one at full deflection
LifecycleAxisInputs == {<< "LeftX", 0 >>, << "LeftX", AxisScale >>, << "RightX", AxisScale >>}

NextLifecycle ==
    \/ \E p \in LifecycleProfiles : SetWorkspace(p)
    \/ RemoveWorkspace
    \/ AddController(StickController)
    \/ \E app \in Apps : SetActiveApp(app)
    \/ \E in \in LifecycleAxisInputs : OnAxisMotion(StickController, in[1], in[2])
    \/ OnTick
    \/ ProcessDueRepeats
    \/ AdvanceClock(1)

SpecLifecycle == Init /\ [][NextLifecycle]_vars

(***************************************************************************)
(* The same controller while it disconnects and its stick stays pushed     *)
(***************************************************************************)
NextDisconnect ==
    \/ SetWorkspace(ProfileArrows)
    \/ AddController(StickController)
    \/ SetActiveApp("demo")
    \/ \E in \in StickAxisInputs : OnAxisMotion(StickController, in[1], in[2])
    \/ OnControllerDisconnected(StickController)
    \/ OnTick
    \/ ProcessDueRepeats
    \/ \E d \in 1..MaxStep : AdvanceClock(d)

SpecDisconnect == Init /\ [][NextDisconnect]_vars

(***************************************************************************)
(* The shell rescheduling after the events of one controller               *)
(***************************************************************************)
\* the left stick at rest and at full deflection, the left trigger at rest and
\* at the activity threshold
WakeAxisInputs ==
    ({"LeftX"} \X {0, AxisScale}) \cup ({"LeftTrigger"} \X {0, ActivityThreshold})

NextWake ==
    \/ SetWorkspace(ProfileArrows)
    \/ RemoveWorkspace
    \/ AddController(StickController)
    \/ SetActiveApp("demo")
    \/ \E in \in WakeAxisInputs : OnAxisMotion(StickController, in[1], in[2])
    \/ OnTick
    \/ ProcessDueRepeats
    \/ Reschedule
    \/ AdvanceClock(1)

SpecWake == Init /\ [][NextWake]_vars

(***************************************************************************)
(* Ticks of one controller with its sticks at rest, on the deadzone radius *)
(* and at full deflection                                                  *)
(***************************************************************************)
\* the deadzone of every mode of DeadzoneProfiles
DeadzoneRadius == 20

DeadzoneAxisInputs ==
    ({"LeftX", "RightX"} \X {0, DeadzoneRadius, AxisScale})
        \cup ({"LeftY"} \X {0, DeadzoneRadius})

NextDeadzone ==
    \/ \E p \in DeadzoneProfiles : SetWorkspace(p)
    \/ AddController(StickController)
    \/ SetActiveApp("demo")
    \/ \E in \in DeadzoneAxisInputs : OnAxisMotion(StickController, in[1], in[2])
    \/ OnTick

SpecDeadzone == Init /\ [][NextDeadzone]_vars

(***************************************************************************)
(* Ticks of one controller with arrows on both sticks and the sticks in    *)
(* every octant                                                            *)
(***************************************************************************)
HalfScale == AxisScale \div 2

ArrowAxisInputs ==
    ({"LeftX", "LeftY"} \X {-AxisScale, -HalfScale, 0, HalfScale, AxisScale})
        \cup ({"RightX", "RightY"} \X {-AxisScale, 0, AxisScale})

NextArrows ==
    \/ workspace = None /\ SetWorkspace(ProfileArrowsBoth)
    \/ StickController \notin connected /\ AddController(StickController)
    \/ active_app = "" /\ SetActiveApp("demo")
    \/ \E in \in ArrowAxisInputs : OnAxisMotion(StickController, in[1], in[2])
    \* the first tick: what a tick registers does not depend on the slots
    \/ generation = 0 /\ OnTick

SpecArrows == Init /\ [][NextArrows]_vars

(***************************************************************************)
(* A stepper held beyond its deadzone: every millisecond                   *)
(* process_due_repeats runs, the stick moves and a tick registers the task *)
(***************************************************************************)
\* the ticks and the milliseconds of a run
MaxHoldTicks == 5
MaxHoldTime == 5

HoldMagnitudes == {HalfScale, AxisScale}

HoldReady ==
    /\ workspace /= None
    /\ StickController \in connected
    /\ active_app = "demo"

NextHold ==
    \/ workspace = None /\ SetWorkspace(ProfileVolumeHold)
    \/ StickController \notin connected /\ AddController(StickController)
    \/ active_app = "" /\ SetActiveApp("demo")
    \/ /\ HoldReady
       /\ last.op \notin {"on_axis_motion", "on_tick", "advance"}
       /\ \E m \in HoldMagnitudes : OnAxisMotion(StickController, "RightX", m)
    \/ last.op = "on_axis_motion" /\ OnTickWithin(MaxHoldTicks, MaxHoldTicks)
    \/ last.op = "on_tick" /\ AdvanceClockUntil(1, MaxHoldTime)
    \/ last.op = "advance" /\ ProcessDueRepeats

SpecHold == Init /\ [][NextHold]_vars

(***************************************************************************)
(* Ticks of one controller, its sticks held and let go, until seq_counter  *)
(* has wrapped around                                                      *)
(***************************************************************************)
\* the ticks of a run
MaxSeqTicks == 9

\* the left stick is pushed and held, the right one is pushed and let go
SeqAxisInputs == {<< "LeftX", AxisScale >>, << "RightX", 0 >>, << "RightX", AxisScale >>}

NextSeqRun ==
    \/ workspace = None /\ SetWorkspace(ProfileArrowsBoth)
    \/ StickController \notin connected /\ AddController(StickController)
    \/ active_app = "" /\ SetActiveApp("demo")
    \/ \E in \in SeqAxisInputs : OnAxisMotion(StickController, in[1], in[2])
    \/ OnTickWithin(MaxSeqTicks, SeqModulus)

SpecSeq == Init /\ [][NextSeqRun]_vars

(***************************************************************************)
(* Ticks of one controller while scroll profiles replace one another       *)
(***************************************************************************)
ScrollAxisInputs == {"RightX", "RightY"} \X {0, AxisScale}

NextScroll ==
    \/ \E p \in ScrollProfiles : SetWorkspace(p)
    \/ AddController(StickController)
    \/ \E app \in Apps : SetActiveApp(app)
    \/ \E in \in ScrollAxisInputs : OnAxisMotion(StickController, in[1], in[2])
    \/ OnTick

SpecScroll == Init /\ [][NextScroll]_vars

(***************************************************************************)
(* The gamepad backend: the SDL event loop of gamacros-gamepad that turns   *)
(* device and axis events into ControllerEvents                            *)
(***************************************************************************)
\* const THRESHOLD: i16 = 20000
TriggerThreshold == 20000
\* i16::MAX, the divisor of the normalised axis value
I16Max == 32767
\* the raw i16 samples an axis event carries in the model
AxisSamples ==
    {-I16Max - 1, -TriggerThreshold - 1, 0, TriggerThreshold, TriggerThreshold + 1, I16Max}
\* the SDL axes the backend sees in the model
SdlAxes == {"LeftX", "TriggerLeft", "TriggerRight"}

\* map_sdl_axis
MapSdlAxis(axis) ==
    CASE axis = "TriggerLeft" -> "LeftTrigger"
      [] axis = "TriggerRight" -> "RightTrigger"
      [] OTHER -> axis

\* the component of the (bool, bool) entry an axis drives, 0 for a stick axis
TriggerSlot(axis) ==
    CASE axis = "TriggerLeft" -> 1
      [] axis = "TriggerRight" -> 2
      [] OTHER -> 0

\* let pressed = value > THRESHOLD
TriggerPressed(value) == value > TriggerThreshold

\* ControllerEvent
ConnectedEvent(info) == [type |-> "Connected", id |-> info.id, info |-> info]
DisconnectedEvent(id) == [type |-> "Disconnected", id |-> id]
\* value is (raw as f32) / (i16::MAX as f32), kept as the fraction num / den
AxisMotionEvent(id, axis, raw) ==
    [type |-> "AxisMotion", id |-> id, axis |-> axis, num |-> raw, den |-> I16Max]
ButtonPressedEvent(id, button) == [type |-> "ButtonPressed", id |-> id, button |-> button]
ButtonReleasedEvent(id, button) == [type |-> "ButtonReleased", id |-> id, button |-> button]

\* the button event of one axis sample, given the remembered entry
TriggerEdge(id, axis, entry, pressed) ==
    IF TriggerSlot(axis) = 0
    THEN << >>
    ELSE IF pressed /\ ~entry[TriggerSlot(axis)]
         THEN << ButtonPressedEvent(id, MapSdlAxis(axis)) >>
         ELSE IF ~pressed /\ entry[TriggerSlot(axis)]
              THEN << ButtonReleasedEvent(id, MapSdlAxis(axis)) >>
              ELSE << >>

\* Event::ControllerDeviceAdded, for a device that opens as a game controller
ControllerDeviceAdded(id) ==
    /\ connected' = connected \cup {id}
    /\ sink' = << >>
    /\ last' = [op |-> "controller_device_added", id |-> id,
                events |-> << ConnectedEvent(ControllerInfo(id)) >>]
    /\ UNCHANGED << gamacrosVars, stickVars, clock, pc, parked, panicked, backendVars, keys_down >>

\* Event::ControllerDeviceRemoved; an instance id names one connection, so the
\* history of the id's triggers ends with it
ControllerDeviceRemoved(id) ==
    /\ connected' = connected \ {id}
    /\ trigger_state' = MapRemove(trigger_state, id)
    /\ trigger_last' = [k \in {x \in DOMAIN trigger_last : x[1] # id} |-> trigger_last[k]]
    /\ sink' = << >>
    /\ last' = [op |-> "controller_device_removed", id |-> id,
                events |-> << DisconnectedEvent(id) >>]
    /\ UNCHANGED << gamacrosVars, stickVars, clock, pc, parked, panicked, keys_down >>

\* Event::ControllerAxisMotion
ControllerAxisMotion(id, axis, value) ==
    \E entry \in {IF id \in DOMAIN trigger_state
                  THEN trigger_state[id] ELSE << FALSE, FALSE >>} :
    \E pressed \in {TriggerPressed(value)} :
    \E edge \in {TriggerEdge(id, axis, entry, pressed)} :
        /\ trigger_state' =
              MapInsert(trigger_state, id,
                        IF edge = << >>
                        THEN entry
                        ELSE [entry EXCEPT ![TriggerSlot(axis)] = pressed])
        /\ trigger_last' =
              IF edge = << >>
              THEN trigger_last
              ELSE MapInsert(trigger_last, << id, MapSdlAxis(axis) >>, edge[1].type)
        /\ sink' = << >>
        /\ last' = [op |-> "controller_axis_motion", id |-> id, axis |-> axis,
                    value |-> value, before |-> entry,
                    emitted |-> MapGet(trigger_last, << id, MapSdlAxis(axis) >>),
                    events |-> << AxisMotionEvent(id, MapSdlAxis(axis), value) >> \o edge]
        /\ UNCHANGED << gamacrosVars, stickVars, clock, pc, parked, panicked, connected,
                        keys_down >>

NextBackend ==
    \/ \E id \in ControllerIds : ControllerDeviceAdded(id)
    \/ \E id \in ControllerIds : ControllerDeviceRemoved(id)
    \/ \E id \in ControllerIds : \E axis \in SdlAxes : \E value \in AxisSamples :
          ControllerAxisMotion(id, axis, value)

SpecBackend == Init /\ [][NextBackend]_vars

(***************************************************************************)
(* The profile parser: ProfileV1::parse of gamacros-workspace, from the     *)
(* deserialized document to the Profile that set_workspace receives        *)
(***************************************************************************)
\* the reserved selector
COMMON_BUNDLE_ID == "common"

\* Lexem
BundleIdLexem(b) == << "BundleId", b >>
GroupLexem(g) == << "Group", g >>

\* the keys of `rules` in the documents of the model
SelectorKeys == {"common", "demo", "$media", "common | other"}
\* the `groups` of the documents of the model
DocGroups == "media" :> << "demo", "other" >>

\* Selector::parse on the keys above: the lexems without the `|` operators
SelectorParse(selector) ==
    CASE selector = "common" -> << BundleIdLexem("common") >>
      [] selector = "demo" -> << BundleIdLexem("demo") >>
      [] selector = "$media" -> << GroupLexem("media") >>
      [] selector = "common | other" -> << BundleIdLexem("common"), BundleIdLexem("other") >>

\* Selector::materialize: groups are replaced by their bundle ids, in order
RECURSIVE Materialize(_, _)
Materialize(lexems, groups) ==
    IF lexems = << >>
    THEN << >>
    ELSE (IF Head(lexems)[1] = "Group"
          THEN groups[Head(lexems)[2]]
          ELSE << Head(lexems)[2] >>) \o Materialize(Tail(lexems), groups)

\* parse_chord on the chord strings of the model, through parse_button_name
ParseChord(input) ==
    CASE input = "a" -> Chord(<< "A" >>)
      [] input = "b" -> Chord(<< "B" >>)
      [] input = "lb+a" -> Chord(<< "LeftShoulder", "A" >>)

\* parse_button_rule for a rule with a keystroke and no macros or shell
ParseButtonRule(raw) == ButtonRule(Keystroke(raw.keystroke), raw.vibrate)

\* parse_stick_side
ParseStickSide(raw) == IF raw = "left" THEN "Left" ELSE "Right"

\* Option::unwrap_or
UnwrapOr(o, default) == IF IsSome(o) THEN Unwrap(o) ELSE default

\* parse_stick_mode for the modes arrows and scroll, with the defaults of the
\* fields the document leaves out; the deadzone 0.15 is 15 in units of 1/AxisScale
ParseStickMode(raw) ==
    IF raw.mode = "arrows"
    THEN Arrows(UnwrapOr(raw.deadzone, 15), UnwrapOr(raw.repeat_delay_ms, 300),
                UnwrapOr(raw.repeat_interval_ms, 40),
                UnwrapOr(raw.invert_x, FALSE), UnwrapOr(raw.invert_y, FALSE))
    ELSE Scroll(UnwrapOr(raw.deadzone, 15), UnwrapOr(raw.speed_lines_s, 100),
                UnwrapOr(raw.horizontal, FALSE),
                UnwrapOr(raw.invert_x, FALSE), UnwrapOr(raw.invert_y, FALSE))

\* parse_app_rules; no app of the model has two keys for one chord or side
ParseAppRules(raw) ==
    [buttons |->
        [c \in {ParseChord(k) : k \in DOMAIN raw.buttons} |->
            ParseButtonRule(raw.buttons[CHOOSE k \in DOMAIN raw.buttons : ParseChord(k) = c])],
     sticks |->
        [d \in {ParseStickSide(k) : k \in DOMAIN raw.sticks} |->
            ParseStickMode(raw.sticks[CHOOSE k \in DOMAIN raw.sticks : ParseStickSide(k) = d])]]

\* ProfileV1ButtonRule and ProfileV1Stick as deserialized
RawKeystroke(k, v) == [keystroke |-> k, vibrate |-> v]
RawStick(mode, delay, horizontal) ==
    [deadzone |-> None, horizontal |-> horizontal, invert_x |-> None,
     invert_y |-> None, mode |-> mode, repeat_delay_ms |-> delay,
     repeat_interval_ms |-> None, speed_lines_s |-> None]

\* the ProfileV1App values of the model
RawApps ==
    { [buttons |-> ("a" :> RawKeystroke("x", None)) @@ ("b" :> RawKeystroke("y", Some(200))),
       sticks |-> ("left" :> RawStick("arrows", None, None))],
      [buttons |-> ("a" :> RawKeystroke("z", None)),
       sticks |-> EmptyMap],
      [buttons |-> EmptyMap,
       sticks |-> ("left" :> RawStick("scroll", None, Some(TRUE)))
                  @@ ("right" :> RawStick("arrows", Some(1), None))],
      [buttons |-> ("lb+a" :> RawKeystroke("w", None)) @@ ("b" :> RawKeystroke("q", None)),
       sticks |-> EmptyMap] }

\* the version 1 documents of the model
ProfileDocs ==
    {[groups |-> DocGroups, rules |-> r, version |-> 1] :
        r \in UNION {[keys -> RawApps] : keys \in SUBSET SelectorKeys}}

\* the orders in which `self.rules.clone().into_iter()` can yield the keys of a hash map
IterationOrders(keys) ==
    {order \in [1..Cardinality(keys) -> keys] :
        \A i, j \in 1..Cardinality(keys) : i # j => order[i] # order[j]}

\* AppRules::default()
AppRulesDefault == [buttons |-> EmptyMap, sticks |-> EmptyMap]
\* the defaults of a new bundle id, were the common rules left out
DefaultRulesEmpty(common_rules) == AppRulesDefault
\* common_rules.clone().unwrap_or_default()
DefaultRules(common_rules) == UnwrapOr(common_rules, AppRulesDefault)

\* buttons.extend(..) and sticks.extend(..): the entries of app_rules replace
\* those of current_rules with the same key
ExtendRules(current_rules, app_rules) ==
    [buttons |->
        [c \in DOMAIN app_rules.buttons \cup DOMAIN current_rules.buttons |->
            IF c \in DOMAIN app_rules.buttons
            THEN app_rules.buttons[c] ELSE current_rules.buttons[c]],
     sticks |->
        [d \in DOMAIN app_rules.sticks \cup DOMAIN current_rules.sticks |->
            IF d \in DOMAIN app_rules.sticks
            THEN app_rules.sticks[d] ELSE current_rules.sticks[d]]]

\* the body of `for bundle_id in bundle_ids`
RECURSIVE MergeBundleIds(_, _, _, _)
MergeBundleIds(rules, bundle_ids, app_rules, common_rules) ==
    IF bundle_ids = << >>
    THEN rules
    ELSE MergeBundleIds(
            MapInsert(rules, Head(bundle_ids),
                      ExtendRules(IF Head(bundle_ids) \in DOMAIN rules
                                  THEN rules[Head(bundle_ids)]
                                  ELSE DefaultRules(common_rules),
                                  app_rules)),
            Tail(bundle_ids), app_rules, common_rules)

\* the body of `for (selector, app_actions) in self.rules.clone().into_iter()`
RECURSIVE MergeSelectors(_, _, _, _)
MergeSelectors(rules, order, doc, common_rules) ==
    IF order = << >>
    THEN rules
    ELSE MergeSelectors(
            MergeBundleIds(rules,
                           Materialize(SelectorParse(Head(order)), doc.groups),
                           ParseAppRules(doc.rules[Head(order)]),
                           common_rules),
            Tail(order), doc, common_rules)

\* ProfileV1::parse, for the order in which the hash map yields the selectors
ParseProfile(doc, order) ==
    LET common_rules ==
            IF COMMON_BUNDLE_ID \in DOMAIN doc.rules
            THEN Some(ParseAppRules(doc.rules[COMMON_BUNDLE_ID]))
            ELSE None
    IN  [name |-> "parsed",
         controllers |-> EmptyMap,
         rules |-> MergeSelectors(
                      IF IsSome(common_rules)
                      THEN COMMON_BUNDLE_ID :> Unwrap(common_rules)
                      ELSE EmptyMap,
                      order, doc, common_rules)]

\* the document of the profile file is parsed, once, before anything else runs
Parse(doc, order) ==
    \E profile \in {ParseProfile(doc, order)} :
        /\ last.op = "new"
        /\ sink' = << >>
        /\ last' = [op |-> "parse", doc |-> doc, order |-> order, profile |-> profile]
        /\ UNCHANGED << gamacrosVars, stickVars, clock, pc, parked, panicked, connected,
                        backendVars, keys_down >>

NextParse ==
    \E doc \in ProfileDocs : \E order \in IterationOrders(DOMAIN doc.rules) :
        Parse(doc, order)

SpecParse == Init /\ [][NextParse]_vars

(***************************************************************************)
(* The term parser of gamacros-workspace: parse_terms_with_delim, on        *)
(* strings kept as sequences of characters                                 *)
(***************************************************************************)
\* the characters of the inputs: two letters, the delimiter and a blank
InputChars == {"a", "b", "+", " "}
Inputs == UNION {[1..n -> InputChars] : n \in 0..MaxInput}

\* str::trim_start
RECURSIVE TrimStart(_)
TrimStart(input) ==
    IF input = << >> \/ Head(input) # " " THEN input ELSE TrimStart(Tail(input))

\* the index at which the loop `for (i, ch) in chars` stops: the first
\* delimiter or blank, or one past the end
TermEnd(input, delim) ==
    IF \E i \in 1..Len(input) : input[i] = delim \/ input[i] = " "
    THEN CHOOSE i \in 1..Len(input) :
            /\ input[i] = delim \/ input[i] = " "
            /\ \A j \in 1..(i - 1) : input[j] # delim /\ input[j] # " "
    ELSE Len(input) + 1

\* next_token_with on an input without leading blanks
NextTokenTrimmed(input, delim, end) ==
    IF input = << >>
    THEN None
    ELSE IF Head(input) = delim
         THEN Some(<< << delim >>, Tail(input) >>)
         ELSE IF end > Len(input)
              THEN Some(<< input, << >> >>)
              ELSE IF input[end] = delim
                   THEN Some(<< SubSeq(input, 1, end - 1), SubSeq(input, end, Len(input)) >>)
                   ELSE Some(<< SubSeq(input, 1, end - 1),
                                TrimStart(SubSeq(input, end, Len(input))) >>)

\* next_token_with: the next term or delimiter and the rest of the input
NextTokenWith(input, delim) ==
    NextTokenTrimmed(TrimStart(input), delim, TermEnd(TrimStart(input), delim))

\* Result<Vec<&str>, SequenceError>
TermsOk(terms) == [ok |-> TRUE, terms |-> terms, kind |-> "", rest |-> << >>]
TermsErr(kind, rest) == [ok |-> FALSE, terms |-> << >>, kind |-> kind, rest |-> rest]

\* a delimiter is refused only when another delimiter comes before it
OnOperatorLenient(last_kind) ==
    IF last_kind = "Operator" THEN "DoubleOperator" ELSE ""
\* `match last` for a delimiter: the error kind, or "" when the loop goes on
OnOperator(last_kind) ==
    CASE last_kind = "None" -> "LeadingOperator"
      [] last_kind = "Operator" -> "DoubleOperator"
      [] OTHER -> ""

\* the loop of parse_terms_with_delim and the check after it
RECURSIVE ParseTermsLoop(_, _, _, _)
ParseTermsToken(token, rest, delim, terms, last_kind) ==
    IF token = << delim >>
    THEN IF OnOperator(last_kind) # ""
         THEN TermsErr(OnOperator(last_kind), rest)
         ELSE ParseTermsLoop(rest, delim, terms, "Operator")
    ELSE IF last_kind = "Term"
         THEN TermsErr("MissingOperatorBetweenTerms", rest)
         ELSE ParseTermsLoop(rest, delim, Append(terms, token), "Term")
ParseTermsLoop(input, delim, terms, last_kind) ==
    IF NextTokenWith(input, delim) = None
    THEN IF last_kind = "Operator"
         THEN TermsErr("TrailingOperator", << >>)
         ELSE TermsOk(terms)
    ELSE ParseTermsToken(Unwrap(NextTokenWith(input, delim))[1],
                         Unwrap(NextTokenWith(input, delim))[2],
                         delim, terms, last_kind)

\* parse_terms_with_delim
ParseTermsWithDelim(input, delim) == ParseTermsLoop(input, delim, << >>, "None")

\* one chord string is parsed, before anything else runs
ParseTerms(input) ==
    \E result \in {ParseTermsWithDelim(input, "+")} :
        /\ last.op = "new"
        /\ sink' = << >>
        /\ last' = [op |-> "parse_terms", input |-> input, delim |-> "+",
                    result |-> result]
        /\ UNCHANGED << gamacrosVars, stickVars, clock, pc, parked, panicked, connected,
                        backendVars, keys_down >>

NextTerms == \E input \in Inputs : ParseTerms(input)

SpecTerms == Init /\ [][NextTerms]_vars

(***************************************************************************)
(* Bitmask alone: its queries on the masks of a few buttons, the button    *)
(* with the highest index included                                         *)
(***************************************************************************)
MaskButtons == {"A", "B", "LeftShoulder", "DPadRight"}
\* the masks Bitmask::new builds from up to three of them
Masks == {BitmaskNew(values) : values \in UNION {[1..n -> MaskButtons] : n \in 0..3}}

\* is_subset, is_superset, contains and count are called on two masks and a key
BitmaskQueries(a, b, t) ==
    /\ last.op = "new"
    /\ sink' = << >>
    /\ last' = [op |-> "bitmask", a |-> a, b |-> b, t |-> t,
                is_subset |-> BitmaskIsSubset(a, b),
                is_superset |-> BitmaskIsSuperset(a, b),
                contains |-> BitmaskContains(a, t),
                count |-> BitmaskCount(a),
                is_empty |-> (a = BitmaskEmpty)]
    /\ UNCHANGED << gamacrosVars, stickVars, clock, pc, parked, panicked, connected,
                    backendVars, keys_down >>

NextBitmask == \E a \in Masks : \E b \in Masks : \E t \in MaskButtons : BitmaskQueries(a, b, t)

SpecBitmask == Init /\ [][NextBitmask]_vars

(***************************************************************************)
(* Profiles and applications alone: every profile above is installed,      *)
(* replaced and removed under every application, the unnamed one included  *)
(***************************************************************************)
AllProfiles == ButtonProfiles \cup StickProfiles \cup LifecycleProfiles \cup {ProfileVolume}
\* "" is the active app of Gamacros::new()
AppNames == Apps \cup {""}

NextProfiles ==
    \/ \E p \in AllProfiles : SetWorkspace(p)
    \/ RemoveWorkspace
    \/ \E app \in AppNames : SetActiveApp(app)
    \/ AddController(StickController)

SpecProfiles == Init /\ [][NextProfiles]_vars

(***************************************************************************)
(* Properties of the button engine                                         *)
(***************************************************************************)
\* bit i of the mask m
BitSet(m, i) == (m \div (2 ^ i)) % 2 = 1
\* every button of the chord is in the pressed set
Holds(pressed, chord) ==
    \A i \in 0..(Len(ButtonNames) - 1) : BitSet(chord, i) => BitSet(pressed, i)
\* number of buttons of the chord
Size(chord) == Cardinality({i \in 0..(Len(ButtonNames) - 1) : BitSet(chord, i)})

\* the last handler was on_button and it reached the button engine
ButtonEvent == last.op = "on_button" /\ last.ran
EvRules == Unwrap(workspace).rules[active_app].buttons
EvPrev == last.prev_pressed
EvNow == controllers[last.id].pressed

\* the chords that fire on the event, as section 4.6 defines it
Firing ==
    {c \in DOMAIN EvRules :
        IF last.phase = "Pressed"
        THEN Holds(EvPrev, c) /= Holds(EvNow, c)
        ELSE Holds(EvPrev, c) /\ ~Holds(EvNow, c)}
\* the firing chords of maximum button count
Longest == {c \in Firing : \A d \in Firing : Size(d) <= Size(c)}

\* the key, macro or shell actions in the sink
SinkRuleActions == {sink[i] : i \in {j \in DOMAIN sink : sink[j].type /= "Rumble"}}
\* what a rule emits in the phase of the event
ExpectedOf(rule) ==
    IF last.phase = "Pressed"
    THEN CASE rule.action.kind = "Keystroke" -> {KeyPress(rule.action.key)}
           [] rule.action.kind = "Macros" -> {MacrosAction(rule.action.keys)}
           [] rule.action.kind = "Shell" -> {ShellAction(rule.action.cmd)}
    ELSE IF rule.action.kind = "Keystroke"
         THEN {KeyRelease(rule.action.key)} ELSE {}

\* C1: on a button event the chords that dispatch are exactly the firing
\* chords of maximum button count, and the sink holds their actions only
C1_LongestChordWins ==
    ButtonEvent =>
        /\ last.dispatched = Longest
        /\ SinkRuleActions = UNION {ExpectedOf(EvRules[c]) : c \in Longest}

\* C1 witness: scenario 1, LeftShoulder held and A pressed: A -> x also fires
\* and only KeyPress(y) is emitted
C1_Witness ==
    /\ ButtonEvent
    /\ workspace = Some(ProfileChords)
    /\ last.phase = "Pressed"
    /\ last.mapped = "A"
    /\ EvPrev = Chord(<< "LeftShoulder" >>)
    /\ Chord(<< "A" >>) \in Firing \ last.dispatched
    /\ sink = << KeyPress("y") >>

\* C2: on a Released event only deactivated chords dispatch and the sink holds
\* nothing but KeyRelease(k) of dispatched Keystroke(k) rules
C2_ReleaseSemantics ==
    (ButtonEvent /\ last.phase = "Released") =>
        /\ \A c \in last.dispatched : Holds(EvPrev, c) /\ ~Holds(EvNow, c)
        /\ \A i \in DOMAIN sink :
              /\ sink[i].type = "KeyRelease"
              /\ \E c \in last.dispatched :
                    EvRules[c].action = Keystroke(sink[i].key)
        /\ (\A c \in DOMAIN EvRules : ~(Holds(EvPrev, c) /\ ~Holds(EvNow, c)))
              => sink = << >>

\* C2 witness: scenario 2, A released while LeftShoulder+A was held, where the
\* macro rule A+B is deactivated too and emits nothing
C2_Witness ==
    /\ ButtonEvent
    /\ last.phase = "Released"
    /\ last.mapped = "A"
    /\ EvPrev = Chord(<< "LeftShoulder", "A", "B" >>)
    /\ Chord(<< "A", "B" >>) \in last.dispatched
    /\ sink = << KeyRelease("y") >>

\* C3: a chord dispatches only across an event that flips whether it is fully
\* held; an event that leaves the pressed set as it was emits nothing
C3_EdgeOnly ==
    ButtonEvent =>
        /\ \A c \in last.dispatched : Holds(EvPrev, c) /= Holds(EvNow, c)
        /\ (sink /= << >> => last.dispatched /= {})
        /\ (EvPrev = EvNow => sink = << >>)

\* C3 witness: a Pressed event for a button that is already held, with a
\* chord containing it fully held before and after
C3_Witness ==
    /\ ButtonEvent
    /\ last.phase = "Pressed"
    /\ EvPrev = EvNow
    /\ \E c \in DOMAIN EvRules :
          Holds(EvNow, c) /\ BitSet(c, ButtonIndex(last.mapped))
    /\ sink = << >>

(***************************************************************************)
(* Properties of profile replacement                                       *)
(***************************************************************************)
ProfileEvent == last.op \in {"set_workspace", "remove_workspace"}

\* the remap the profile p holds for controller id, the identity if none
ProfileRemap(p, id) ==
    LET key == << ControllerInfo(id).vendor_id, ControllerInfo(id).product_id >>
    IN  IF key \in DOMAIN p.controllers THEN p.controllers[key] ELSE EmptyMap

\* C9: after set_workspace(p) every controller remaps buttons as p says
C9_RemapFollowsProfile ==
    last.op = "set_workspace" =>
        \A id \in DOMAIN controllers : \A b \in EventButtons :
            Remap(controllers[id].mapping, b) = Remap(ProfileRemap(last.profile, id), b)

\* C10: set_workspace and remove_workspace keep the known controllers, their
\* pressed sets and their axis values
C10_ProfileKeepsControllers ==
    ProfileEvent =>
        /\ DOMAIN controllers = DOMAIN last.prev_controllers
        /\ \A id \in DOMAIN controllers :
              /\ controllers[id].pressed = last.prev_controllers[id].pressed
              /\ controllers[id].axes = last.prev_controllers[id].axes

\* C10 witness: a profile is replaced while a controller holds a button and
\* has a deflected axis
C10_Witness ==
    /\ last.op = "set_workspace"
    /\ \E id \in DOMAIN last.prev_controllers :
          /\ last.prev_controllers[id].pressed /= BitmaskEmpty
          /\ last.prev_controllers[id].axes[0] /= 0


(***************************************************************************)
(* Properties of the repeat scheduler                                      *)
(***************************************************************************)
TickEvent == last.op = "on_tick"
DrainEvent == last.op = "process_due_repeats"

\* the KeyTap actions of a sequence of actions
KeyTaps(actions) == SelectSeq(actions, LAMBDA a : a.type = "KeyTap")

\* the number of places of `actions` that hold `a`
Occurrences(actions, a) == Cardinality({i \in DOMAIN actions : actions[i] = a})

\* the slots of the arrow task of controller cid and side `side`
ArrowSlots(cid, side) ==
    {SlotFor(stick_controllers, RepeatTaskId(cid, side, ArrowKind(d))) : d \in Directions}

\* C4: while a repeat task stays active, register emits the immediate KeyTap
\* only on the call that creates the slot: a tick emits one KeyTap for each
\* registration that found its slot empty, in the order of the registrations,
\* and none for a registration that found the slot occupied, whether or not
\* the parameters changed.
C4_TapOnlyOnCreation ==
    TickEvent =>
        /\ \A i \in DOMAIN last.log :
              IsSome(last.log[i].before) => last.log[i].action = None
        /\ KeyTaps(sink) =
              Flatten([i \in DOMAIN last.log |->
                  IF last.log[i].before = None
                  THEN << KeyTap(last.log[i].reg.key) >> ELSE << >>])

\* a tick re-registers an occupied slot with changed parameters and emits nothing
C4_Witness ==
    /\ TickEvent
    /\ sink = << >>
    /\ \E i \in DOMAIN last.log :
          /\ IsSome(last.log[i].before)
          /\ Changed(Unwrap(last.log[i].before), last.log[i].reg)

\* C5: for a repeat task with interval_ms > 0 created at t0 and re-registered
\* with unchanged parameters: the creation emits exactly one KeyTap, the first
\* repeat is emitted by a process_due_repeats(now) call with
\* now >= t0 + initial_delay_ms, and every later repeat at a `now` at least
\* interval_ms after the previous one.
C5_RepeatTiming ==
    /\ TickEvent =>
          \A i \in DOMAIN last.log :
              (last.log[i].before = None /\ last.log[i].reg.interval_ms > 0) =>
                  /\ last.log[i].action = Some(KeyTap(last.log[i].reg.key))
                  /\ Occurrences(sink, KeyTap(last.log[i].reg.key)) =
                        Cardinality({j \in DOMAIN last.log :
                            /\ last.log[j].before = None
                            /\ last.log[j].reg.key = last.log[i].reg.key})
    /\ DrainEvent =>
          \A i \in DOMAIN last.fired :
              LET st == last.fired[i].before
              IN  (st.interval_ms > 0 /\ ~st.g_changed) =>
                      IF st.last_fire = st.g_created
                      THEN last.now >= st.g_created + st.initial_delay_ms
                      ELSE last.now >= st.last_fire + st.interval_ms

\* a task with an initial delay and unchanged parameters repeats for the
\* second time
C5_Witness ==
    /\ DrainEvent
    /\ \E i \in DOMAIN last.fired :
          LET st == last.fired[i].before
          IN  /\ st.interval_ms > 0
              /\ st.initial_delay_ms > 0
              /\ ~st.g_changed
              /\ st.last_fire > st.g_created
              /\ st.last_seen_generation > 1

\* C6: after a slot is re-registered with a changed key, interval, initial
\* delay or fire_on_activate, heap entries scheduled under the earlier
\* parameters never cause an emission: every entry that fires was pushed under
\* the parameters its slot holds at that moment, and a pass emits one KeyTap
\* for each entry that fires and none for the entries it discards.
C6_StaleNeverFires ==
    DrainEvent =>
        /\ \A i \in DOMAIN last.fired :
              last.fired[i].entry.g_params = TaskParams(last.fired[i].before)
        /\ sink = [i \in DOMAIN last.fired |-> KeyTap(last.fired[i].before.key)]

\* a pass emits exactly one KeyTap for a re-registered slot and discards, without
\* firing it, a due entry of the same slot pushed before the parameters changed
C6_Witness ==
    /\ DrainEvent
    /\ last.returns
    /\ Len(sink) = 1
    /\ Len(last.fired) = 1
    /\ last.fired[1].before.g_changed
    /\ \E j \in DOMAIN last.discarded :
          /\ last.discarded[j].id = last.fired[1].entry.id
          /\ last.discarded[j].seq /= last.fired[1].entry.seq
          /\ last.discarded[j].g_params /= last.fired[1].entry.g_params
          /\ last.discarded[j].due <= last.now

\* C7: in a single process_due_repeats(now) pass each repeat task emits at most
\* one KeyTap.
C7_OncePerPass ==
    DrainEvent =>
        \A i, j \in DOMAIN last.fired :
            i /= j => last.fired[i].entry.id /= last.fired[j].entry.id

\* C8: with an Arrows mode active for a side, once a tick observes that side's
\* stick inside the deadzone, the arrow slots of that side are empty at the
\* end of the tick, they stay empty, and no process_due_repeats pass emits for
\* that arrow task, until the stick leaves the deadzone again.
C8_DeadzoneClears ==
    /\ (TickEvent /\ last.ran) =>
          \A cs \in SeenInside(controllers, compiled_stick_rules) :
              ArrowSlots(cs[1], cs[2]) = {None}
    /\ \A cs \in parked : ArrowSlots(cs[1], cs[2]) = {None}
    /\ DrainEvent =>
          \A i \in DOMAIN last.fired :
              last.fired[i].entry.id.kind.tag = "Arrow" =>
                  << last.fired[i].entry.id.controller,
                     last.fired[i].entry.id.side >> \notin parked

\* after a tick saw the stick inside the deadzone, a pass meets the due entry
\* of the cleared arrow task, drops it and emits nothing
C8_Witness ==
    /\ DrainEvent
    /\ sink = << >>
    /\ \E j \in DOMAIN last.discarded :
          /\ last.discarded[j].id.kind.tag = "Arrow"
          /\ << last.discarded[j].id.controller, last.discarded[j].id.side >> \in parked
          /\ last.discarded[j].due <= last.now

(***************************************************************************)
(* Properties of the controller table                                      *)
(***************************************************************************)
AddEvent == last.op = "add_controller"

\* C11: after add_controller(info) returns, info.id is known, with or without
\* a profile, so that every controller between its Connected and its
\* Disconnected event is known and a button event for it never meets the
\* failure of on_button's `expect`.
C11_ConnectedIsKnown ==
    /\ AddEvent => IsKnown(last.id)
    /\ \A id \in connected : IsKnown(id)
    /\ ~panicked

\* C12: add_controller for an id that is already known leaves the pressed set,
\* the axis values and the remap of that controller as they were.
C12_AddIsIdempotent ==
    (AddEvent /\ IsSome(last.prev)) =>
        /\ IsKnown(last.id)
        /\ controllers[last.id].pressed = Unwrap(last.prev).pressed
        /\ controllers[last.id].axes = Unwrap(last.prev).axes
        /\ controllers[last.id].mapping = Unwrap(last.prev).mapping

\* C13: for a known controller, after every on_button call the pressed set is
\* the previous one with the remapped button inserted (Pressed) or removed
\* (Released), with or without a profile and a rule set for the active app.
\* A call that returns early leaves the table as it was, so that the previous
\* pressed set and remap are the ones in the table.
C13_PressedTracksEvents ==
    (last.op = "on_button" /\ IsKnown(last.id)) =>
        LET state == controllers[last.id]
            prev == IF last.ran THEN last.prev_pressed ELSE state.pressed
        IN  state.pressed = UpdatePressed(prev, Remap(state.mapping, last.button),
                                          last.phase)

(***************************************************************************)
(* Properties of profile, application and controller changes               *)
(***************************************************************************)
\* no profile is installed, or the active app has no entry in its rules
NoRuleSet ==
    \/ workspace = None
    \/ active_app \notin DOMAIN Unwrap(workspace).rules

\* C14: while no profile is installed or the active app has no rule set,
\* on_button, on_tick and process_due_repeats emit no action, whatever repeat
\* tasks were active before.
C14_NoRulesNoActions ==
    (NoRuleSet /\ last.op \in {"on_button", "on_tick", "process_due_repeats"}) =>
        sink = << >>

AppEvent == last.op = "set_active_app"
\* the stick processor's controllers before the last set_active_app
AppPrevSticks == last.prev[2][1]
\* an Arrow slot of `sc` is occupied
SomeArrowSlot(sc) ==
    \E cid \in DOMAIN sc, s \in 0..1, i \in 0..3 : IsSome(sc[cid].sides[s].arrows[i])
\* a scroll accumulator of `sc` holds a fraction of a line
SomeScrollAccum(sc) ==
    \E cid \in DOMAIN sc, s \in 0..1 : sc[cid].sides[s].scroll_accum /= << 0, 0 >>

\* C15: immediately after set_active_app(app) with app different from the
\* current app, no Arrow repeat slot is occupied for any controller or side
\* and every scroll accumulator is (0, 0).
C15_AppChangeClears ==
    (AppEvent /\ last.app /= last.prev_app) =>
        /\ ~SomeArrowSlot(stick_controllers)
        /\ ~SomeScrollAccum(stick_controllers)

\* the app changes while an arrow task is active and a scroll accumulator holds
\* half a line
C15_Witness ==
    /\ AppEvent
    /\ last.app /= last.prev_app
    /\ SomeArrowSlot(AppPrevSticks)
    /\ SomeScrollAccum(AppPrevSticks)

\* C16: set_active_app(a) with a equal to the active app emits nothing and
\* changes no state: slots, heap entries, scroll accumulators, compiled stick
\* rules and controller state are as they were before the call.
C16_SameAppNoChange ==
    (AppEvent /\ last.app = last.prev_app) =>
        /\ sink = << >>
        /\ << gamacrosVars, stickVars >> = last.prev

\* the active app is reported again while an arrow task is active, a heap entry
\* is pending and a scroll accumulator holds half a line
C16_Witness ==
    /\ AppEvent
    /\ last.app = last.prev_app
    /\ SomeArrowSlot(stick_controllers)
    /\ SomeScrollAccum(stick_controllers)
    /\ schedule /= {}
    /\ IsSome(compiled_stick_rules)

\* C17: after any sequence of set_workspace, remove_workspace and
\* set_active_app calls, the compiled stick rules are the stick modes of the
\* active app's entry in the current profile, and are absent when there is no
\* profile or the profile has no entry for the active app.
C17_CompiledMatchesProfile ==
    IF NoRuleSet
    THEN compiled_stick_rules = None
    ELSE /\ IsSome(compiled_stick_rules)
         /\ \A side \in {"Left", "Right"} :
               CompiledSide(Unwrap(compiled_stick_rules), side)
                   = MapGet(Unwrap(workspace).rules[active_app].sticks, side)

\* a profile with other arrow parameters replaces the installed one while its
\* app is active
C17_Witness ==
    /\ last.op = "set_workspace"
    /\ last.profile = ProfileArrowsFast
    /\ active_app = "demo"
    /\ IsSome(compiled_stick_rules)
    /\ SideHasMode(Unwrap(compiled_stick_rules), "Left", "Arrows")
    /\ Unwrap(CompiledLeft(Unwrap(compiled_stick_rules))).repeat_interval_ms = 1

DisconnectEvent == last.op = "on_controller_disconnected"
\* a repeat slot of controller cid is occupied
SomeSlotOf(cid) ==
    /\ cid \in DOMAIN stick_controllers
    /\ \E s \in 0..1, i \in 0..3 :
          \/ IsSome(stick_controllers[cid].sides[s].arrows[i])
          \/ IsSome(stick_controllers[cid].sides[s].volume[i])
          \/ IsSome(stick_controllers[cid].sides[s].brightness[i])

\* C18: after on_controller_disconnected(id) no repeat slot of controller id is
\* occupied, and the heap entries that were scheduled for id before the
\* disconnect never fire in a later process_due_repeats pass.
C18_DisconnectReleases ==
    /\ DisconnectEvent => ~SomeSlotOf(last.id)
    /\ DrainEvent => \A i \in DOMAIN last.fired : ~last.fired[i].entry.g_orphan

\* a pass meets a due entry pushed before the disconnect after a tick has
\* occupied the slot of the same task again, and discards it
C18_Witness ==
    /\ DrainEvent
    /\ \E j \in DOMAIN last.discarded :
          /\ last.discarded[j].g_orphan
          /\ last.discarded[j].due <= last.now
          /\ IsSome(SlotFor(stick_controllers, last.discarded[j].id))

(***************************************************************************)
(* Properties of refreshes and of the next due time                        *)
(***************************************************************************)
\* the registration asks for the key, interval, initial delay and
\* fire_on_activate the slot holds
SameParams(st, reg) ==
    /\ st.key = reg.key
    /\ st.interval_ms = reg.interval_ms
    /\ st.initial_delay_ms = reg.initial_delay_ms
    /\ st.fire_on_activate = reg.fire_on_activate

\* the registrations of the last tick that found their slot occupied
Refreshes == {i \in DOMAIN last.log : IsSome(last.log[i].before)}

\* C19: re-registering an occupied slot with identical key, interval_ms,
\* initial_delay_ms and fire_on_activate leaves the slot's seq and its pending
\* heap entry, with its due time, as they were and pushes no entry; a
\* refresh with other parameters assigns the slot a new seq.
C19_RefreshKeepsSchedule ==
    TickEvent =>
        \A i \in Refreshes :
            LET e == last.log[i]
                st == Unwrap(e.before)
            IN  IF SameParams(st, e.reg)
                THEN /\ Unwrap(e.after).seq = st.seq
                     /\ e.pushed = {}
                     /\ e.pending \subseteq schedule
                     /\ \A p \in e.pending : ~EntryIsStale(stick_controllers, p)
                ELSE Unwrap(e.after).seq /= st.seq

\* a later tick refreshes an unchanged task whose next repeat is pending
C19_Witness ==
    /\ TickEvent
    /\ \E i \in Refreshes :
          /\ SameParams(Unwrap(last.log[i].before), last.log[i].reg)
          /\ last.log[i].pending /= {}
          /\ last.now > Unwrap(last.log[i].before).g_created

NextDueEvent == last.op = "next_repeat_due"
\* the heap entries whose slot is occupied and holds their seq
LiveEntries ==
    {e \in schedule :
        LET slot == SlotFor(stick_controllers, e.id)
        IN  IsSome(slot) /\ Unwrap(slot).seq = e.seq}

\* C20: next_repeat_due returns the least due time of the heap entries that
\* are not stale, and None when there is none; a process_due_repeats(now) pass
\* with now earlier than the time next_repeat_due returns, or with None
\* returned, emits nothing.
C20_NextDueIsEarliest ==
    /\ NextDueEvent =>
          IF LiveEntries = {}
          THEN last.due = None
          ELSE /\ IsSome(last.due)
               /\ \E e \in LiveEntries : e.due = Unwrap(last.due)
               /\ \A e \in LiveEntries : Unwrap(last.due) <= e.due
    /\ DrainEvent =>
          \A d \in last.hint : (d = None \/ last.now < Unwrap(d)) => sink = << >>

\* next_repeat_due pops a stale entry that is due before the live one and
\* returns the due time of the live one
C20_Witness ==
    /\ NextDueEvent
    /\ IsSome(last.due)
    /\ \E e \in last.popped : e.due < Unwrap(last.due)

(***************************************************************************)
(* Properties of the wake hints                                            *)
(***************************************************************************)
\* the compiled stick rules of the active app bind a mode to some side
SomeStickMode ==
    /\ IsSome(compiled_stick_rules)
    /\ \E side \in {"Left", "Right"} :
          IsSome(CompiledSide(Unwrap(compiled_stick_rules), side))
\* the greatest magnitude among the axes of the known controllers
AxisPeak ==
    LET mags == {Abs(controllers[id].axes[i]) : id \in DOMAIN controllers, i \in 0..5}
    IN  IF mags = {} THEN 0 ELSE CHOOSE m \in mags : \A n \in mags : n <= m
\* a repeat slot of some controller is occupied
SomeSlot == \E cid \in DOMAIN stick_controllers : SomeSlotOf(cid)

\* C21: needs_tick() is true if and only if the compiled stick rules of the
\* active app bind a stick mode to some side and a known controller has an
\* axis of magnitude >= 0.05, or a repeat slot is occupied.
C21_NeedsTickIff ==
    NeedsTick <=> ((SomeStickMode /\ AxisPeak >= ActivityThreshold) \/ SomeSlot)

\* needs_tick() holds for an axis at exactly 0.05 alone: no slot is occupied
C21_Witness ==
    /\ NeedsTick
    /\ ~SomeSlot
    /\ AxisPeak = ActivityThreshold

\* every axis of every known controller is at rest
AllNeutral == \A id \in DOMAIN controllers : \A i \in 0..5 : controllers[id].axes[i] = 0
\* next_repeat_due() returns None
NoRepeatDue ==
    \A r \in NextRepeatDueLoop(schedule, stick_controllers) : r.due = None

\* C22: the loop parks when idle: once every controller's axes are neutral and
\* no further input arrives, after at most one more tick needs_tick() is false
\* and next_repeat_due() is None, under every profile and active app, no
\* profile and an app without rules included. The state after a tick that ran
\* with every axis at rest is such a state.
C22_ParksWhenIdle ==
    (TickEvent /\ AllNeutral) => (~NeedsTick /\ NoRepeatDue)

RescheduleEvent == last.op = "reschedule"
\* the times the shell has to wake at after the last reschedule: the next tick,
\* when a tick is needed, and the least due time of a live heap entry
WakeCandidates ==
    (IF NeedsTick
     THEN {last.now + (IF WantsFastTick THEN FastPeriod ELSE IdlePeriod)}
     ELSE {})
    \cup {e.due : e \in LiveEntries}

SinkRumbles == {sink[i] : i \in {j \in DOMAIN sink : sink[j].type = "Rumble"}}
\* the dispatched chords whose rule has vibrate set
Vibrating == {c \in last.dispatched : IsSome(EvRules[c].vibrate)}

\* C24: on a Pressed event that fires a rule with vibrate set, a Rumble action
\* is emitted only for the originating controller and only if that controller
\* reports supports_rumble = true; when it reports false no Rumble is emitted
\* and the rule's KeyPress, Macros or Shell action is still emitted.
C24_RumbleOnlyIfSupported ==
    (ButtonEvent /\ last.phase = "Pressed") =>
        /\ \A a \in SinkRumbles :
              /\ a.id = last.id
              /\ ControllerInfo(last.id).supports_rumble
              /\ \E c \in Vibrating : a.ms = Unwrap(EvRules[c].vibrate)
        /\ ~ControllerInfo(last.id).supports_rumble =>
              /\ SinkRumbles = {}
              /\ \A c \in Vibrating : ExpectedOf(EvRules[c]) \subseteq SinkRuleActions

\* scenario 5 of the specification: A pressed on a controller without rumble
\* under a rule with vibrate: 200 emits KeyPress("z") alone
C24_Witness ==
    /\ ButtonEvent
    /\ last.phase = "Pressed"
    /\ ~ControllerInfo(last.id).supports_rumble
    /\ Vibrating = {Chord(<< "A" >>)}
    /\ sink = << KeyPress("z") >>

(***************************************************************************)
(* Properties of the deadzone                                              *)
(***************************************************************************)
\* the mode the compiled rules bind to `side`, None without one
ModeOf(side) ==
    IF compiled_stick_rules = None THEN None
    ELSE CompiledSide(Unwrap(compiled_stick_rules), side)
\* both axis values of the stick of `side` lie within [-deadzone, deadzone] of
\* the mode bound to the side
InsideBox(cid, side) ==
    LET xy == AxesForSide(controllers[cid].axes, side)
        dz == Unwrap(ModeOf(side)).deadzone
    IN  Abs(xy[1]) <= dz /\ Abs(xy[2]) <= dz
\* the last tick emitted a KeyTap for a task of controller cid and `side`
TappedFor(cid, side) ==
    \E i \in DOMAIN last.log :
        /\ last.log[i].reg.id.controller = cid
        /\ last.log[i].reg.id.side = side
        /\ IsSome(last.log[i].action)
\* the last tick emitted an action of `type` although every stick bound to
\* `mode` was inside its box
EmittedInside(mode, type) ==
    /\ \E i \in DOMAIN sink : sink[i].type = type
    /\ \A cid \in DOMAIN controllers, side \in {"Left", "Right"} :
          (IsSome(ModeOf(side)) /\ Unwrap(ModeOf(side)).mode = mode)
              => InsideBox(cid, side)

\* C25: on each tick, for every controller and every side with a configured
\* stick mode, if the side's axis values all lie within [-deadzone, deadzone]
\* then no stick-mode action (KeyTap of a newly registered task, MouseMove or
\* Scroll) is emitted for that controller and side on that tick.
C25_InsideDeadzoneSilent ==
    (TickEvent /\ last.ran) =>
        /\ \A cid \in DOMAIN controllers, side \in {"Left", "Right"} :
              (IsSome(ModeOf(side)) /\ InsideBox(cid, side)) => ~TappedFor(cid, side)
        /\ ~EmittedInside("MouseMove", "MouseMove")
        /\ ~EmittedInside("Scroll", "Scroll")

\* the stick of `side` is exactly on the deadzone radius of the mode bound to it
OnRadius(cid, side) ==
    LET xy == AxesForSide(controllers[cid].axes, side)
        dz == Unwrap(ModeOf(side)).deadzone
    IN  xy[1] * xy[1] + xy[2] * xy[2] = dz * dz

\* C26: in Arrows mode a stick whose magnitude is exactly the deadzone
\* (x*x + y*y = deadzone*deadzone) does not activate: the tick registers no
\* Arrow task for it and emits no KeyTap.
C26_ArrowsExcludeBoundary ==
    (TickEvent /\ last.ran) =>
        \A cid \in DOMAIN controllers, side \in {"Left", "Right"} :
            (/\ IsSome(ModeOf(side))
             /\ Unwrap(ModeOf(side)).mode = "Arrows"
             /\ OnRadius(cid, side))
            => /\ \A i \in DOMAIN last.log :
                     ~(/\ last.log[i].reg.id.controller = cid
                       /\ last.log[i].reg.id.side = side)
               /\ ArrowSlots(cid, side) = {None}
               /\ KeyTaps(sink) = << >>

(***************************************************************************)
(* Properties of scrolling and of axis events                              *)
(***************************************************************************)
\* a side is bound to Scroll, and every such side has horizontal = false
VerticalScrollOnly ==
    /\ \E side \in {"Left", "Right"} :
          IsSome(ModeOf(side)) /\ Unwrap(ModeOf(side)).mode = "Scroll"
    /\ \A side \in {"Left", "Right"} :
          (IsSome(ModeOf(side)) /\ Unwrap(ModeOf(side)).mode = "Scroll")
              => ~Unwrap(ModeOf(side)).horizontal

\* C27: in Scroll mode with horizontal = false no Scroll action with a
\* non-zero h is emitted, after every axis history and every sequence of
\* profile replacements and app changes, a replacement that switches the side
\* from horizontal = true to horizontal = false included.
C27_VerticalScrollNoH ==
    (TickEvent /\ VerticalScrollOnly) =>
        \A i \in DOMAIN sink : sink[i].type = "Scroll" => sink[i].h = 0

\* the step is an on_axis_motion call
AxisStep == last'.op = "on_axis_motion"

\* C28: on_axis_motion(id, axis, value) emits no action and changes only the
\* addressed axis slot of controller id: other axes, other controllers,
\* pressed sets, remaps, the profile, the app and the repeat tasks are as they
\* were; for an unknown id it changes nothing and does not fail.
C28_AxisFrame ==
    [][AxisStep =>
        /\ sink' = << >>
        /\ panicked' = panicked
        /\ UNCHANGED << workspace, active_app, active_stick_rules,
                        compiled_stick_rules, stickVars >>
        /\ DOMAIN controllers' = DOMAIN controllers
        /\ \A id \in DOMAIN controllers :
              /\ controllers'[id].pressed = controllers[id].pressed
              /\ controllers'[id].mapping = controllers[id].mapping
              /\ controllers'[id].rumble = controllers[id].rumble
              /\ \A i \in 0..5 :
                    controllers'[id].axes[i] =
                        IF id = last'.id /\ i = AxisIndex(last'.axis)
                        THEN last'.value
                        ELSE controllers[id].axes[i]]_vars

\* an axis event of a known controller that holds a button, while the other
\* known controller holds a button too
C28_Witness ==
    /\ last.op = "on_axis_motion"
    /\ last.value /= 0
    /\ DOMAIN controllers = ControllerIds
    /\ \A id \in ControllerIds : controllers[id].pressed /= BitmaskEmpty
    /\ controllers[last.id].axes[AxisIndex(last.axis)] = last.value
    /\ \E id \in ControllerIds \ {last.id} : controllers[id].axes[AxisIndex(last.axis)] = 0

(***************************************************************************)
(* Properties of the gamepad backend                                       *)
(***************************************************************************)
\* the last handler was an axis event of a trigger
TriggerEvent == last.op = "controller_axis_motion" /\ TriggerSlot(last.axis) # 0
\* |v|
Magnitude(v) == IF v < 0 THEN -v ELSE v
\* the last handler broadcast a button event of this type for its trigger
Broadcast(type) ==
    \E i \in DOMAIN last.events :
        /\ last.events[i].type = type
        /\ last.events[i].id = last.id
        /\ last.events[i].button = MapSdlAxis(last.axis)

\* C29: an axis event of a trigger broadcasts ButtonPressed exactly when |v| is
\* above the threshold and the remembered state is released, and ButtonReleased
\* exactly when |v| is not above the threshold and the remembered state is
\* pressed; the button events of one trigger alternate, Pressed first
C29_TriggerEdges ==
    TriggerEvent =>
        /\ Broadcast("ButtonPressed") <=>
              (Magnitude(last.value) > TriggerThreshold
                  /\ ~last.before[TriggerSlot(last.axis)])
        /\ Broadcast("ButtonReleased") <=>
              (~(Magnitude(last.value) > TriggerThreshold)
                  /\ last.before[TriggerSlot(last.axis)])
        /\ Broadcast("ButtonPressed") => last.emitted # Some("ButtonPressed")
        /\ Broadcast("ButtonReleased") => last.emitted = Some("ButtonPressed")

(***************************************************************************)
(* Properties of the profile parser                                        *)
(***************************************************************************)
ParseEvent == last.op = "parse"
\* the selectors of the parsed document, other than `common`, that name b
Naming(b) ==
    {selector \in DOMAIN last.doc.rules \ {COMMON_BUNDLE_ID} :
        \E i \in DOMAIN Materialize(SelectorParse(selector), last.doc.groups) :
            Materialize(SelectorParse(selector), last.doc.groups)[i] = b}
\* the entries (selector, key) those selectors have for a chord, and for a
\* stick side
OwnButtons(b, chord) ==
    {x \in Naming(b) \X {"a", "b", "lb+a"} :
        x[2] \in DOMAIN last.doc.rules[x[1]].buttons /\ ParseChord(x[2]) = chord}
OwnSticks(b, side) ==
    {x \in Naming(b) \X {"left", "right"} :
        x[2] \in DOMAIN last.doc.rules[x[1]].sticks /\ ParseStickSide(x[2]) = side}
\* the entries of `common` for a chord, and for a stick side
CommonButtons(chord) ==
    {x \in ({COMMON_BUNDLE_ID} \cap DOMAIN last.doc.rules) \X {"a", "b", "lb+a"} :
        x[2] \in DOMAIN last.doc.rules[x[1]].buttons /\ ParseChord(x[2]) = chord}
CommonSticks(side) ==
    {x \in ({COMMON_BUNDLE_ID} \cap DOMAIN last.doc.rules) \X {"left", "right"} :
        x[2] \in DOMAIN last.doc.rules[x[1]].sticks /\ ParseStickSide(x[2]) = side}
\* a rule is the parsed form of one of the entries
ButtonFrom(rule, entries) ==
    \E e \in entries : rule = ParseButtonRule(last.doc.rules[e[1]].buttons[e[2]])
StickFrom(mode, entries) ==
    \E e \in entries : mode = ParseStickMode(last.doc.rules[e[1]].sticks[e[2]])
ModelChords == {ParseChord(k) : k \in {"a", "b", "lb+a"}}
ModelSides == {"Left", "Right"}

\* C30: in a parsed profile every bundle id other than the reserved `common`
\* that a selector other than `common` names has a rule set; its chords and
\* stick sides are those of the common rules and of the selectors that name
\* it; an entry a naming selector gives
\* replaces the common one, and every common entry none of them gives is kept
C30_CommonMerged ==
    ParseEvent =>
        \A b \in (Apps \cup DOMAIN last.profile.rules) \ {COMMON_BUNDLE_ID} :
            Naming(b) # {} =>
                /\ b \in DOMAIN last.profile.rules
                /\ DOMAIN last.profile.rules[b].buttons =
                      {c \in ModelChords : OwnButtons(b, c) \cup CommonButtons(c) # {}}
                /\ DOMAIN last.profile.rules[b].sticks =
                      {d \in ModelSides : OwnSticks(b, d) \cup CommonSticks(d) # {}}
                /\ \A c \in DOMAIN last.profile.rules[b].buttons :
                      ButtonFrom(last.profile.rules[b].buttons[c],
                                 IF OwnButtons(b, c) # {}
                                 THEN OwnButtons(b, c) ELSE CommonButtons(c))
                /\ \A d \in DOMAIN last.profile.rules[b].sticks :
                      StickFrom(last.profile.rules[b].sticks[d],
                                IF OwnSticks(b, d) # {}
                                THEN OwnSticks(b, d) ELSE CommonSticks(d))

\* two selectors name one application, one of their entries replaces a common
\* entry that differs from it, and a common entry neither of them gives is kept
C30_Witness ==
    /\ ParseEvent
    /\ \E b \in Apps :
        /\ Cardinality(Naming(b)) >= 2
        /\ \E c \in ModelChords :
              /\ OwnButtons(b, c) # {}
              /\ CommonButtons(c) # {}
              /\ ~ButtonFrom(last.profile.rules[b].buttons[c], CommonButtons(c))
        /\ \E d \in ModelSides :
              /\ OwnSticks(b, d) = {}
              /\ CommonSticks(d) # {}
              /\ StickFrom(last.profile.rules[b].sticks[d], CommonSticks(d))

(***************************************************************************)
(* Properties of the term parser                                           *)
(***************************************************************************)
TermsEvent == last.op = "parse_terms"
\* the tokens of an input: its maximal runs of letters and its delimiters
RECURSIVE TokensOf(_, _)
TokensOf(input, delim) ==
    IF NextTokenWith(input, delim) = None
    THEN << >>
    ELSE << Unwrap(NextTokenWith(input, delim))[1] >>
            \o TokensOf(Unwrap(NextTokenWith(input, delim))[2], delim)
LastTokens == TokensOf(last.input, last.delim)
\* token i is what an alternation that starts with a term has at place i
InPlace(tokens, i) == (tokens[i] = << last.delim >>) <=> (i % 2 = 0)
\* term, delimiter, term, ..., from a term to a term
Alternates(tokens) ==
    /\ Len(tokens) % 2 = 1
    /\ \A i \in 1..Len(tokens) : InPlace(tokens, i)
\* the terms of the tokens, in input order
TermsOf(tokens) == [i \in 1..((Len(tokens) + 1) \div 2) |-> tokens[2 * i - 1]]
\* the error of the first token out of place, or of a delimiter at the end
FirstViolation(tokens) ==
    IF \E i \in 1..Len(tokens) : ~InPlace(tokens, i)
    THEN CHOOSE kind \in {"LeadingOperator", "DoubleOperator", "MissingOperatorBetweenTerms"} :
            \E i \in 1..Len(tokens) :
                /\ ~InPlace(tokens, i)
                /\ \A j \in 1..(i - 1) : InPlace(tokens, j)
                /\ kind = (IF i % 2 = 0 THEN "MissingOperatorBetweenTerms"
                           ELSE IF i = 1 THEN "LeadingOperator" ELSE "DoubleOperator")
    ELSE "TrailingOperator"

\* C31: parse_terms_with_delim accepts an input exactly when its tokens
\* alternate term, delimiter, term, ..., from a term to a term, and then
\* returns the terms in input order; otherwise it fails with the error of the
\* first violation
C31_TermsAlternate ==
    TermsEvent =>
        /\ last.result.ok <=> Alternates(LastTokens)
        /\ last.result.ok => last.result.terms = TermsOf(LastTokens)
        /\ ~last.result.ok => last.result.kind = FirstViolation(LastTokens)

\* C31 as amended: an input without any token is accepted too, with no terms
C31_TermsAlternateOrEmpty ==
    TermsEvent =>
        /\ last.result.ok <=> (LastTokens = << >> \/ Alternates(LastTokens))
        /\ last.result.ok => last.result.terms = TermsOf(LastTokens)
        /\ ~last.result.ok => last.result.kind = FirstViolation(LastTokens)

\* an input of two terms around a delimiter is accepted
C31_Witness ==
    /\ TermsEvent
    /\ last.result.ok
    /\ Len(last.result.terms) = 2
    /\ Len(LastTokens) = 3

(***************************************************************************)
(* Properties of Bitmask                                                   *)
(***************************************************************************)
BitmaskEvent == last.op = "bitmask"
\* the positions of a u64 the buttons use
BitPositions == 0..(Len(ButtonNames) - 1)

\* C32: a.is_subset(b) holds exactly when every bit of a is a bit of b (a & b
\* = a), a.is_superset(b) exactly when every bit of b is a bit of a,
\* a.contains(t) exactly when bit(t) is set in a, and a.count() is the number
\* of set bits; the empty mask is a subset of every mask and a mask is a
\* subset and a superset of itself
C32_BitmaskQueries ==
    BitmaskEvent =>
        /\ last.is_subset <=> \A i \in BitPositions : BitSet(last.a, i) => BitSet(last.b, i)
        /\ last.is_superset <=> \A i \in BitPositions : BitSet(last.b, i) => BitSet(last.a, i)
        /\ last.contains <=> BitSet(last.a, ButtonIndex(last.t))
        /\ last.count = Cardinality({i \in BitPositions : BitSet(last.a, i)})
        /\ last.is_empty => last.is_subset
        /\ last.a = last.b => (last.is_subset /\ last.is_superset)

\* a proper subset that holds the key asked for: subset but not superset
C32_Witness ==
    /\ BitmaskEvent
    /\ last.is_subset
    /\ ~last.is_superset
    /\ last.contains
    /\ last.count = 2

(***************************************************************************)
(* Properties of the keys the button engine holds down                    *)
(***************************************************************************)
\* the keys controller id holds down
KeysDownOf(id) == {e \in keys_down : e[1] = id}

\* C33: under one profile and one application, when the pressed set of a
\* controller is empty no key pressed for it is still held down
C33_NoKeyStaysDown ==
    \A id \in DOMAIN controllers :
        controllers[id].pressed = BitmaskEmpty => KeysDownOf(id) = {}

\* C34: under one profile and one application, a button event emits
\* KeyPress(k) only for a key that is not held down and KeyRelease(k) only for
\* a key that is: the presses and releases of a Keystroke rule alternate,
\* starting with a press
C34_PressReleaseAlternate ==
    [][(last'.op = "on_button" /\ last'.ran) =>
          \A i \in DOMAIN sink' :
              /\ sink'[i].type = "KeyPress" =>
                    << last'.id, sink'[i].key >> \notin keys_down
              /\ sink'[i].type = "KeyRelease" =>
                    << last'.id, sink'[i].key >> \in keys_down]_vars

\* C38: every chord that dispatches on a button event contains the remapped
\* button of the event, and on a Pressed event it is fully held afterwards
C38_DispatchHasButton ==
    ButtonEvent =>
        \A c \in last.dispatched :
            /\ BitSet(c, ButtonIndex(last.mapped))
            /\ last.phase = "Pressed" => Holds(EvNow, c)

\* a remapped press completes a chord of two buttons, which dispatches
C38_Witness ==
    /\ ButtonEvent
    /\ last.phase = "Pressed"
    /\ last.mapped # last.button
    /\ \E c \in last.dispatched : Size(c) = 2 /\ Holds(EvNow, c) /\ ~Holds(EvPrev, c)

(***************************************************************************)
(* Properties of the repeat scheduler as a whole                          *)
(***************************************************************************)
\* RepeatKind: an arrow direction or a stepper mode, axis and sign
RepeatKinds ==
    {ArrowKind(d) : d \in Directions}
        \cup {KindFor(m, a, p) : m \in {"Volume", "Brightness"}, a \in {"X", "Y"},
                                 p \in BOOLEAN}

\* the ids of the occupied repeat slots
OccupiedIds ==
    {id \in {RepeatTaskId(c, s, k) : c \in DOMAIN stick_controllers,
                                     s \in {"Left", "Right"}, k \in RepeatKinds} :
        IsSome(SlotFor(stick_controllers, id))}

\* the heap entries of slot id that entry_is_stale does not reject
LiveEntriesOf(id) == {e \in LiveEntries : e.id = id}

\* C35: between two operations of the scheduler every occupied repeat slot
\* whose interval_ms > 0 has exactly one heap entry that is not stale
C35_OneLiveEntry ==
    pc = "idle" =>
        \A id \in OccupiedIds :
            Unwrap(SlotFor(stick_controllers, id)).interval_ms > 0 =>
                Cardinality(LiveEntriesOf(id)) = 1

\* C36: every process_due_repeats(now) pass returns, for every initial delay
\* and interval a profile can configure
C36_DrainReturns == DrainEvent => last.returns

(***************************************************************************)
(* Properties of the arrow quantization                                   *)
(***************************************************************************)
\* the vector tick_arrows hands to quantize_direction for a side in Arrows mode
StickVector(cid, side) ==
    LET params == Unwrap(CompiledSide(Unwrap(compiled_stick_rules), side))
        xy0 == AxesForSide(controllers[cid].axes, side)
    IN  InvertXY(xy0[1], xy0[2], params.invert_x, ~params.invert_y)

\* the vector is at or beyond the deadzone radius of the side
BeyondDeadzone(v, side) ==
    LET dz == Unwrap(CompiledSide(Unwrap(compiled_stick_rules), side)).deadzone
    IN  v[1] * v[1] + v[2] * v[2] >= dz * dz

\* the Arrow tasks the tick registered for a controller and a side
ArrowTasks(cid, side) ==
    {i \in DOMAIN last.log :
        /\ last.log[i].reg.id.controller = cid
        /\ last.log[i].reg.id.side = side
        /\ last.log[i].reg.id.kind.tag = "Arrow"}

\* the directions the claim allows for a vector
DirectionsOf(v) ==
    IF Abs(v[1]) > Abs(v[2]) THEN {IF v[1] > 0 THEN "Right" ELSE "Left"}
    ELSE IF v[2] > 0 THEN {"Up"}
    ELSE IF v[2] < 0 THEN {"Down"}
    ELSE {}

\* C39: a tick registers for each controller and side in Arrows mode at most
\* one Arrow task; for a vector at or beyond the deadzone its direction is
\* Left/Right by the sign of x when |x| > |y|, Up/Down by the sign of y when
\* |y| > |x| or |x| = |y|, and none for the vector (0, 0); inside the deadzone
\* there is none
C39_ArrowQuantization ==
    (TickEvent /\ last.ran) =>
        \A cid \in DOMAIN controllers : \A side \in {"Left", "Right"} :
            SideHasMode(Unwrap(compiled_stick_rules), side, "Arrows") =>
                /\ Cardinality(ArrowTasks(cid, side)) <= 1
                /\ {last.log[i].reg.id.kind.dir : i \in ArrowTasks(cid, side)}
                      = IF BeyondDeadzone(StickVector(cid, side), side)
                        THEN DirectionsOf(StickVector(cid, side))
                        ELSE {}
                /\ (BeyondDeadzone(StickVector(cid, side), side)
                        /\ StickVector(cid, side) /= << 0, 0 >>)
                      => Cardinality(ArrowTasks(cid, side)) = 1

\* a tick with the left stick on a diagonal, quantized to the vertical
\* direction, and the right stick at rest with no deadzone, quantized to none
C39_Witness ==
    /\ TickEvent
    /\ last.ran
    /\ \E cid \in DOMAIN controllers :
          /\ Abs(StickVector(cid, "Left")[1]) = Abs(StickVector(cid, "Left")[2])
          /\ StickVector(cid, "Left")[2] < 0
          /\ {last.log[i].reg.id.kind.dir : i \in ArrowTasks(cid, "Left")} = {"Down"}
          /\ StickVector(cid, "Right") = << 0, 0 >>
          /\ BeyondDeadzone(StickVector(cid, "Right"), "Right")
          /\ ArrowTasks(cid, "Right") = {}

(***************************************************************************)
(* Properties of a task that every tick registers                         *)
(***************************************************************************)
\* the largest interval_ms a tick of the held stepper registers
LargestHoldInterval ==
    LET params == ProfileVolumeHold.rules["demo"].sticks["Right"]
        intervals == {StepperInterval(params, m) : m \in HoldMagnitudes}
    IN  CHOOSE i \in intervals : \A j \in intervals : j <= i

\* C37: a task that every tick registers, one tick a millisecond, with
\* process_due_repeats run every millisecond before the tick, never goes
\* longer without a KeyTap than the largest interval_ms it is registered with
\* plus one tick period (last_fire is the time of its latest KeyTap)
C37_KeepsEmitting ==
    DrainEvent =>
        \A id \in OccupiedIds :
            id.kind.tag = "Volume" =>
                clock - Unwrap(SlotFor(stick_controllers, id)).last_fire
                    <= LargestHoldInterval + 1

(***************************************************************************)
(* Properties of the seq values                                           *)
(***************************************************************************)
\* the seq of an occupied slot
SeqOf(ctrls, id) == Unwrap(SlotFor(ctrls, id)).seq

\* seq_counter after one more registration: the next value, and 1 after the
\* largest one
SeqAfter(c) == IF c = SeqModulus - 1 THEN 1 ELSE c + 1

\* every seq handed out is not zero, and a tick of one or two registrations
\* moves seq_counter on by one for each of them, past zero at the wrap
SeqStep ==
    /\ seq_counter' /= seq_counter => seq_counter' /= 0
    /\ \A id \in OccupiedIds' : SeqOf(stick_controllers', id) /= 0
    /\ \A e \in schedule' : e.seq /= 0
    /\ (last'.op = "on_tick" /\ Len(last'.log) = 1) =>
            seq_counter' = SeqAfter(seq_counter)
    /\ (last'.op = "on_tick" /\ Len(last'.log) = 2) =>
            seq_counter' = SeqAfter(SeqAfter(seq_counter))
    /\ (seq_counter' /= seq_counter /\ ~seq_wrapped') => seq_counter' > seq_counter

\* no two occupied slots hold the same seq, and a heap entry that is stale
\* stays stale for as long as it is in the heap
SeqNeverShared ==
    /\ \A id1, id2 \in OccupiedIds' :
            id1 /= id2 => SeqOf(stick_controllers', id1) /= SeqOf(stick_controllers', id2)
    /\ \A e \in schedule : \A f \in schedule' :
            (/\ EntryIsStale(stick_controllers, e)
             /\ f.id = e.id /\ f.seq = e.seq /\ f.due = e.due)
                => EntryIsStale(stick_controllers', f)

====
